---- MODULE Spec2Model ----
(***************************************************************************)
(* Ghost-report backend: the relational store (db_init.sql), the bootstrap *)
(* of backend/server.js and its request handlers, as a state machine.      *)
(*                                                                         *)
(* Every table is a set of rows (records).  A handler is a sequence of     *)
(* awaited database statements: each statement is one atomic step of the   *)
(* engine, and other requests may run between two steps of a handler.      *)
(* Strings are sequences of tokens, so that concatenation is \o and the    *)
(* empty string is << >>.  Ids are naturals; 0 is the falsy / absent id.   *)
(* The statements of server.js name a column Sighting.description          *)
(* (server.js:190, 451, 496) that CREATE TABLE Sighting of db_init.sql     *)
(* does not declare: schema says whether the store has it, and a Sighting  *)
(* row of a store without it carries NULL there.  Columns that no handler  *)
(* branches on (password, latitude, longitude, type, guide, path) are left *)
(* out of the rows.                                                        *)
(***************************************************************************)
EXTENDS Integers, Sequences, FiniteSets, TLC

VARIABLES
    User,                       \* rows [id, username, email]
    Ghost_Buster,               \* rows [userID, ghosts_busted, alias]
    Sighting,                   \* rows [id, visibility, time, userReportID, description]
    Ghost,                      \* rows [id, name, visibility]
    Tour,                       \* rows [id, startTime, endTime]
    Sighting_Comment,           \* rows [userID, sightingID, reportTime, description]
    Ghost_Comment,              \* rows [userID, ghostID, reportTime, description]
    Sighting_Reports_Ghost,     \* rows [sightingID, ghostID]
    Tour_Includes,              \* rows [tourID, ghostID]
    Tour_Sign_Up,               \* rows [userID, tourID]
    Ghost_Buster_Fights_Ghost,  \* rows [userID, ghostID]
    autoInc,                    \* last AUTO_INCREMENT id handed out, per table
    schema,                     \* the tables (and checkTime) that exist
    now,                        \* the engine's clock: NOW() / datetime('now')
    useSqlite,                  \* the engine chosen by configuration
    dbClient,                   \* "null" until the bootstrap ends, then the engine type
    boot,                       \* the bootstrap's position and locals
    req,                        \* request slot -> the handler's position and locals
    del,                        \* the deletion script's position
    ui                          \* the GhostDetail page's bust action

tables == <<User, Ghost_Buster, Sighting, Ghost, Tour, Sighting_Comment,
            Ghost_Comment, Sighting_Reports_Ghost, Tour_Includes, Tour_Sign_Up,
            Ghost_Buster_Fights_Ghost>>
store == <<tables, autoInc, schema>>
vars == <<store, now, useSqlite, dbClient, boot, req, del, ui>>

(***************************************************************************)
(* Bounds of the model.                                                    *)
(***************************************************************************)
NumUsers == 2
NumGhosts == 1
MaxTime == 1

UserIds == 1..NumUsers
GhostIds == 1..NumGhosts
Slots == 1..2

(***************************************************************************)
(* Values.                                                                 *)
(***************************************************************************)
Undefined == <<"undefined">>
Null == -1
NullText == Undefined
EmptyString == << >>
Truthy(v) == v # Undefined /\ v # EmptyString
Descriptions == {<<"d1">>, <<"d2">>}
BodyStrings == Descriptions \cup {Undefined, EmptyString}

Free(s) == req[s].pc \in {"idle", "done"}
Ready == dbClient # "null"

RowIds(T) == {r.id : r \in T}
AllTables == {"User", "Ghost_Buster", "Sighting", "Ghost", "Tour", "Sighting_Comment",
              "Ghost_Comment", "Sighting_Reports_Ghost", "Tour_Includes", "Tour_Sign_Up",
              "Ghost_Buster_Fights_Ghost"}

(***************************************************************************)
(* The engine: foreign keys and primary keys of db_init.sql.  An INSERT    *)
(* that breaks one is rejected and the statement's promise rejects.        *)
(***************************************************************************)
SightingCommentAcceptsAny(row) == TRUE

SightingCommentAccepts(row) ==
    /\ row.userID \in RowIds(User)
    /\ row.sightingID \in RowIds(Sighting)
    /\ ~\E r \in Sighting_Comment :
            r.userID = row.userID /\ r.sightingID = row.sightingID

GhostCommentAccepts(row) ==
    /\ row.userID \in RowIds(User)
    /\ row.ghostID \in RowIds(Ghost)
    /\ ~\E r \in Ghost_Comment :
            r.userID = row.userID /\ r.ghostID = row.ghostID

TourSignUpAccepts(row) ==
    /\ row.userID \in RowIds(User)
    /\ row.tourID \in RowIds(Tour)
    /\ row \notin Tour_Sign_Up

(***************************************************************************)
(* A request arrives in a free slot; its handler then runs step by step.   *)
(***************************************************************************)
Respond(s, status, body) ==
    req' = [req EXCEPT ![s] =
                [op |-> req[s].op, pc |-> "done", status |-> status, body |-> body]]
Error(code) == [error |-> code]
Idle == [op |-> "none", pc |-> "idle", status |-> 0, body |-> Error("")]

\* The GhostDetail page before it is opened: its useState defaults.
Closed ==
    [pc |-> "idle", user |-> 0, ghost |-> 0, isGhostBuster |-> FALSE,
     isFighting |-> FALSE, ghostsBusted |-> 0, error |-> "null"]

(***************************************************************************)
(* POST /api/sightings/:sightingId/comments                                *)
(***************************************************************************)
PostSightingComment(s, sightingId, userID, description) ==
    /\ Free(s)
    /\ req' = [req EXCEPT ![s] =
            [op |-> "POST sighting comment", pc |-> "wait", status |-> 0, body |-> Error(""),
             sightingId |-> sightingId, userID |-> userID,
             description |-> description, existing |-> {}]]
    /\ UNCHANGED <<store, now, useSqlite, dbClient, boot, del, ui>>

SightingCommentSelect(s) ==
    /\ req[s].op = "POST sighting comment" /\ req[s].pc = "wait"
    /\ Ready
    /\ IF req[s].userID = 0 \/ ~Truthy(req[s].description)
       THEN Respond(s, 400, Error("userID and description are required"))
       ELSE req' = [req EXCEPT ![s] = [@ EXCEPT
                !.pc = "write",
                !.existing = {r \in Sighting_Comment :
                    r.userID = req[s].userID /\ r.sightingID = req[s].sightingId}]]
    /\ UNCHANGED <<store, now, useSqlite, dbClient, boot, del, ui>>

SightingCommentWriteNoUpdate(s) ==
    LET row == [userID |-> req[s].userID, sightingID |-> req[s].sightingId,
                reportTime |-> now, description |-> req[s].description]
    IN  /\ req[s].op = "POST sighting comment" /\ req[s].pc = "write"
        /\ IF SightingCommentAccepts(row)
             THEN /\ Sighting_Comment' = Sighting_Comment \cup {row}
                  /\ Respond(s, 201, [userID |-> row.userID, description |-> row.description])
             ELSE /\ UNCHANGED Sighting_Comment
                  /\ Respond(s, 500, Error("internal"))
        /\ UNCHANGED <<User, Ghost_Buster, Sighting, Ghost, Tour, Ghost_Comment,
                       Sighting_Reports_Ghost, Tour_Includes, Tour_Sign_Up,
                       Ghost_Buster_Fights_Ghost, autoInc, schema,
                       now, useSqlite, dbClient, boot, del, ui>>

SightingCommentWrite(s) ==
    LET row == [userID |-> req[s].userID, sightingID |-> req[s].sightingId,
                reportTime |-> now, description |-> req[s].description]
    IN  /\ req[s].op = "POST sighting comment" /\ req[s].pc = "write"
        /\ IF req[s].existing # {}
           THEN /\ Sighting_Comment' =
                      {IF r.userID = row.userID /\ r.sightingID = row.sightingID
                       THEN [r EXCEPT !.description = row.description,
                                      !.reportTime = now]
                       ELSE r : r \in Sighting_Comment}
                /\ Respond(s, 200, [userID |-> row.userID, description |-> row.description,
                                     message |-> "Comment updated"])
           ELSE IF SightingCommentAccepts(row)
                THEN /\ Sighting_Comment' = Sighting_Comment \cup {row}
                     /\ Respond(s, 201, [userID |-> row.userID, description |-> row.description])
                ELSE /\ UNCHANGED Sighting_Comment
                     /\ Respond(s, 500, Error("internal"))
        /\ UNCHANGED <<User, Ghost_Buster, Sighting, Ghost, Tour, Ghost_Comment,
                       Sighting_Reports_Ghost, Tour_Includes, Tour_Sign_Up,
                       Ghost_Buster_Fights_Ghost, autoInc, schema,
                       now, useSqlite, dbClient, boot, del, ui>>

(***************************************************************************)
(* POST /api/ghosts/:ghostId/comments                                      *)
(***************************************************************************)
PostGhostComment(s, ghostId, userID, description) ==
    /\ Free(s)
    /\ req' = [req EXCEPT ![s] =
            [op |-> "POST ghost comment", pc |-> "wait", status |-> 0, body |-> Error(""),
             ghostId |-> ghostId, userID |-> userID,
             description |-> description, existing |-> {}]]
    /\ UNCHANGED <<store, now, useSqlite, dbClient, boot, del, ui>>

GhostCommentSelect(s) ==
    /\ req[s].op = "POST ghost comment" /\ req[s].pc = "wait"
    /\ Ready
    /\ IF req[s].userID = 0 \/ ~Truthy(req[s].description)
       THEN Respond(s, 400, Error("userID and description are required"))
       ELSE req' = [req EXCEPT ![s] = [@ EXCEPT
                !.pc = "write",
                !.existing = {r \in Ghost_Comment :
                    r.userID = req[s].userID /\ r.ghostID = req[s].ghostId}]]
    /\ UNCHANGED <<store, now, useSqlite, dbClient, boot, del, ui>>

GhostCommentWrite(s) ==
    LET row == [userID |-> req[s].userID, ghostID |-> req[s].ghostId,
                reportTime |-> now, description |-> req[s].description]
    IN  /\ req[s].op = "POST ghost comment" /\ req[s].pc = "write"
        /\ IF req[s].existing # {}
           THEN /\ Ghost_Comment' =
                      {IF r.userID = row.userID /\ r.ghostID = row.ghostID
                       THEN [r EXCEPT !.description = row.description,
                                      !.reportTime = now]
                       ELSE r : r \in Ghost_Comment}
                /\ Respond(s, 200, [userID |-> row.userID, description |-> row.description,
                                     message |-> "Comment updated"])
           ELSE IF GhostCommentAccepts(row)
                THEN /\ Ghost_Comment' = Ghost_Comment \cup {row}
                     /\ Respond(s, 201, [userID |-> row.userID, description |-> row.description])
                ELSE /\ UNCHANGED Ghost_Comment
                     /\ Respond(s, 500, Error("internal"))
        /\ UNCHANGED <<User, Ghost_Buster, Sighting, Ghost, Tour, Sighting_Comment,
                       Sighting_Reports_Ghost, Tour_Includes, Tour_Sign_Up,
                       Ghost_Buster_Fights_Ghost, autoInc, schema,
                       now, useSqlite, dbClient, boot, del, ui>>

(***************************************************************************)
(* The engine's clock advances between statements.                         *)
(***************************************************************************)
Tick ==
    /\ now < MaxTime
    /\ now' = now + 1
    /\ UNCHANGED <<store, useSqlite, dbClient, boot, req, del, ui>>

(***************************************************************************)
(* POST /api/tours/:tourId/join                                            *)
(***************************************************************************)
PostJoinTour(s, tourId, userID) ==
    /\ Free(s)
    /\ req' = [req EXCEPT ![s] =
            [op |-> "POST join", pc |-> "wait", status |-> 0, body |-> Error(""),
             tourId |-> tourId, userID |-> userID]]
    /\ UNCHANGED <<store, now, useSqlite, dbClient, boot, del, ui>>

JoinExistingNone(s) == {}

JoinExisting(s) ==
    {r \in Tour_Sign_Up : r.userID = req[s].userID /\ r.tourID = req[s].tourId}

JoinSelect(s) ==
    /\ req[s].op = "POST join" /\ req[s].pc = "wait"
    /\ Ready
    /\ IF req[s].userID = 0
       THEN Respond(s, 400, Error("userID is required"))
       ELSE IF JoinExisting(s) # {}
            THEN Respond(s, 200, [message |-> "already_signed_up"])
            ELSE req' = [req EXCEPT ![s] = [@ EXCEPT !.pc = "insert"]]
    /\ UNCHANGED <<store, now, useSqlite, dbClient, boot, del, ui>>

JoinInsert(s) ==
    LET row == [userID |-> req[s].userID, tourID |-> req[s].tourId]
    IN  /\ req[s].op = "POST join" /\ req[s].pc = "insert"
        /\ IF TourSignUpAccepts(row)
           THEN /\ Tour_Sign_Up' = Tour_Sign_Up \cup {row}
                /\ Respond(s, 201, row)
           ELSE /\ UNCHANGED Tour_Sign_Up
                /\ Respond(s, 500, Error("internal"))
        /\ UNCHANGED <<User, Ghost_Buster, Sighting, Ghost, Tour, Sighting_Comment,
                       Ghost_Comment, Sighting_Reports_Ghost, Tour_Includes,
                       Ghost_Buster_Fights_Ghost, autoInc, schema,
                       now, useSqlite, dbClient, boot, del, ui>>

(***************************************************************************)
(* DELETE /api/tours/:tourId/leave                                         *)
(***************************************************************************)
DeleteLeaveTour(s, tourId, userID) ==
    /\ Free(s)
    /\ req' = [req EXCEPT ![s] =
            [op |-> "DELETE leave", pc |-> "wait", status |-> 0, body |-> Error(""),
             tourId |-> tourId, userID |-> userID]]
    /\ UNCHANGED <<store, now, useSqlite, dbClient, boot, del, ui>>

LeaveDeleteWholeTour(s) ==
    /\ req[s].op = "DELETE leave" /\ req[s].pc = "wait"
    /\ Ready
    /\ IF req[s].userID = 0
       THEN /\ Respond(s, 400, Error("userID is required"))
            /\ UNCHANGED Tour_Sign_Up
       ELSE /\ Tour_Sign_Up' = {r \in Tour_Sign_Up : r.tourID # req[s].tourId}
            /\ Respond(s, 200, [message |-> "left_tour"])
    /\ UNCHANGED <<User, Ghost_Buster, Sighting, Ghost, Tour, Sighting_Comment,
                   Ghost_Comment, Sighting_Reports_Ghost, Tour_Includes,
                   Ghost_Buster_Fights_Ghost, autoInc, schema,
                   now, useSqlite, dbClient, boot, del, ui>>

LeaveDelete(s) ==
    /\ req[s].op = "DELETE leave" /\ req[s].pc = "wait"
    /\ Ready
    /\ IF req[s].userID = 0
       THEN /\ Respond(s, 400, Error("userID is required"))
            /\ UNCHANGED Tour_Sign_Up
       ELSE /\ Tour_Sign_Up' = {r \in Tour_Sign_Up :
                    ~(r.userID = req[s].userID /\ r.tourID = req[s].tourId)}
            /\ Respond(s, 200, [message |-> "left_tour"])
    /\ UNCHANGED <<User, Ghost_Buster, Sighting, Ghost, Tour, Sighting_Comment,
                   Ghost_Comment, Sighting_Reports_Ghost, Tour_Includes,
                   Ghost_Buster_Fights_Ghost, autoInc, schema,
                   now, useSqlite, dbClient, boot, del, ui>>

(***************************************************************************)
(* POST /api/tours.  startTime and endTime are numbers, 0 when absent;     *)
(* ghostIDs is a list (isArray) of ghost ids or some other value.  The     *)
(* Tour row is inserted first, then one Tour_Includes row per list entry,  *)
(* each its own statement.  CHECK (startTime < endTime) is in force only   *)
(* in a store whose schema has the constraint checkTime.                   *)
(***************************************************************************)
MaxTours == 2

PostTour(s, guide, path, startTime, endTime, ghostIDs) ==
    /\ Free(s)
    /\ autoInc.Tour < 1 + MaxTours
    /\ req' = [req EXCEPT ![s] =
            [op |-> "POST tours", pc |-> "wait", status |-> 0, body |-> Error(""),
             guide |-> guide, path |-> path, startTime |-> startTime,
             endTime |-> endTime, ghostIDs |-> ghostIDs, tourId |-> 0, next |-> 0]]
    /\ UNCHANGED <<store, now, useSqlite, dbClient, boot, del, ui>>

TourInsert(s) ==
    LET id == autoInc.Tour + 1
        row == [id |-> id, startTime |-> req[s].startTime, endTime |-> req[s].endTime]
        accepted == /\ "Tour" \in schema
                    /\ "checkTime" \in schema => row.startTime < row.endTime
    IN  /\ req[s].op = "POST tours" /\ req[s].pc = "wait"
        /\ Ready
        /\ IF \/ ~Truthy(req[s].guide) \/ ~Truthy(req[s].path)
              \/ req[s].startTime = 0 \/ req[s].endTime = 0
           THEN /\ Respond(s, 400,
                        Error("guide, path, startTime, and endTime are required"))
                /\ UNCHANGED <<Tour, autoInc>>
           ELSE IF ~req[s].ghostIDs.isArray \/ Len(req[s].ghostIDs.items) = 0
           THEN /\ Respond(s, 400, Error("at least one ghost must be selected"))
                /\ UNCHANGED <<Tour, autoInc>>
           ELSE IF accepted
           THEN /\ Tour' = Tour \cup {row}
                /\ autoInc' = [autoInc EXCEPT !.Tour = id]
                /\ req' = [req EXCEPT ![s] =
                            [@ EXCEPT !.tourId = id, !.next = 1, !.pc = "include"]]
           ELSE /\ Respond(s, 500, Error("internal"))
                /\ UNCHANGED <<Tour, autoInc>>
        /\ UNCHANGED <<User, Ghost_Buster, Sighting, Ghost, Sighting_Comment,
                       Ghost_Comment, Sighting_Reports_Ghost, Tour_Includes,
                       Tour_Sign_Up, Ghost_Buster_Fights_Ghost, schema,
                       now, useSqlite, dbClient, boot, del, ui>>

\* for (const ghostID of ghostIDs): one INSERT INTO Tour_Includes, then 201
TourInclude(s) ==
    LET items == req[s].ghostIDs.items
        row == [tourID |-> req[s].tourId, ghostID |-> items[req[s].next]]
        accepted == /\ row \notin Tour_Includes
                    /\ row.tourID \in RowIds(Tour)
                    /\ row.ghostID \in RowIds(Ghost)
    IN  /\ req[s].op = "POST tours" /\ req[s].pc = "include"
        /\ IF accepted
           THEN /\ Tour_Includes' = Tour_Includes \cup {row}
                /\ IF req[s].next < Len(items)
                   THEN req' = [req EXCEPT ![s] = [@ EXCEPT !.next = @ + 1]]
                   ELSE Respond(s, 201,
                            [id |-> req[s].tourId, guide |-> req[s].guide,
                             path |-> req[s].path, startTime |-> req[s].startTime,
                             endTime |-> req[s].endTime])
           ELSE /\ UNCHANGED Tour_Includes
                /\ Respond(s, 500, Error("internal"))
        /\ UNCHANGED <<User, Ghost_Buster, Sighting, Ghost, Tour, Sighting_Comment,
                       Ghost_Comment, Sighting_Reports_Ghost, Tour_Sign_Up,
                       Ghost_Buster_Fights_Ghost, autoInc, schema,
                       now, useSqlite, dbClient, boot, del, ui>>

(***************************************************************************)
(* A store in service: users, one sighting, ghosts and one tour exist and  *)
(* the bootstrap has ended.                                                *)
(***************************************************************************)
Names == <<"spooky_sam", "paranormal_pat", "ecto_emily", "phantom_phil", "mystic_maya">>
Emails == <<"sam@ghosthunters.com", "pat@spiritwatch.com", "emily@ghostbusters.net",
            "phil@hauntedplaces.org", "maya@supernatural.com">>
GhostNames == <<"The Knocker", "Lady Grey", "The Dark Watcher", "Weeping William",
                "The Headless Coachman">>
UsernameOf(u) == <<Names[u]>>
EmailOf(u) == <<Emails[u]>>

InitProcesses ==
    /\ now = 0
    /\ useSqlite \in BOOLEAN
    /\ dbClient = IF useSqlite THEN "sqlite" ELSE "mysql"
    /\ boot = [pc |-> "done", stmt |-> 0, userCount |-> 1, run |-> 1]
    /\ req = [s \in Slots |-> Idle]
    /\ del = [pc |-> "idle", stmt |-> 0, id |-> 0, rejected |-> {}]
    /\ ui = Closed

ServingRowsOf(busters) ==
    /\ User = {[id |-> u, username |-> UsernameOf(u), email |-> EmailOf(u)] : u \in UserIds}
    /\ Ghost_Buster = busters
    /\ Sighting = {[id |-> 1, visibility |-> 5, time |-> 0, userReportID |-> 1,
                    description |-> NullText]}
    /\ Ghost = {[id |-> g, name |-> <<GhostNames[g]>>, visibility |-> 3] : g \in GhostIds}
    /\ Tour = {[id |-> 1, startTime |-> 1, endTime |-> 2]}
    /\ Sighting_Comment = {}
    /\ Ghost_Comment = {}
    /\ Sighting_Reports_Ghost = {[sightingID |-> 1, ghostID |-> 1]}
    /\ Tour_Includes = {[tourID |-> 1, ghostID |-> 1]}
    /\ Tour_Sign_Up = {}
    /\ Ghost_Buster_Fights_Ghost = {}
    /\ autoInc = [User |-> NumUsers, Sighting |-> 1, Ghost |-> NumGhosts, Tour |-> 1]
    /\ InitProcesses

ServingRows == ServingRowsOf({})

\* The store as the bootstrap creates it from db_init.sql.
InitServing == ServingRows /\ schema = AllTables

(***************************************************************************)
(* POST /api/register.  Three awaits: the SELECT for an existing user,     *)
(* bcrypt.hash, the INSERT.  The User table has no UNIQUE constraint, so   *)
(* the INSERT is accepted whatever the table holds.                        *)
(***************************************************************************)
PostRegister(s, username, email, password) ==
    /\ Free(s)
    /\ req' = [req EXCEPT ![s] =
            [op |-> "POST register", pc |-> "wait", status |-> 0, body |-> Error(""),
             username |-> username, email |-> email, password |-> password]]
    /\ UNCHANGED <<store, now, useSqlite, dbClient, boot, del, ui>>

RegisterExistingByUsername(s) == {r \in User : r.username = req[s].username}

\* SELECT id FROM User WHERE username = ? OR email = ?
RegisterExisting(s) ==
    {r \in User : r.username = req[s].username \/ r.email = req[s].email}

RegisterSelect(s) ==
    /\ req[s].op = "POST register" /\ req[s].pc = "wait"
    /\ IF ~Truthy(req[s].username) \/ ~Truthy(req[s].email) \/ ~Truthy(req[s].password)
       THEN Respond(s, 400, Error("username, email and password are required"))
       ELSE /\ Ready
            /\ IF RegisterExisting(s) # {}
               THEN Respond(s, 409, Error("username_or_email_taken"))
               ELSE req' = [req EXCEPT ![s] = [@ EXCEPT !.pc = "hash"]]
    /\ UNCHANGED <<store, now, useSqlite, dbClient, boot, del, ui>>

\* bcrypt.hash(password, 10, ...)
RegisterHash(s) ==
    /\ req[s].op = "POST register" /\ req[s].pc = "hash"
    /\ req' = [req EXCEPT ![s] = [@ EXCEPT !.pc = "insert"]]
    /\ UNCHANGED <<store, now, useSqlite, dbClient, boot, del, ui>>

RegisterInsert(s) ==
    LET id == autoInc.User + 1
        row == [id |-> id, username |-> req[s].username, email |-> req[s].email]
    IN  /\ req[s].op = "POST register" /\ req[s].pc = "insert"
        /\ User' = User \cup {row}
        /\ autoInc' = [autoInc EXCEPT !.User = id]
        /\ Respond(s, 201, row)
        /\ UNCHANGED <<Ghost_Buster, Sighting, Ghost, Tour, Sighting_Comment,
                       Ghost_Comment, Sighting_Reports_Ghost, Tour_Includes,
                       Tour_Sign_Up, Ghost_Buster_Fights_Ghost, schema,
                       now, useSqlite, dbClient, boot, del, ui>>

RegisterNames == {Undefined, EmptyString, UsernameOf(1), <<"sam">>}
RegisterEmails == {Undefined, EmptyString, EmailOf(1), <<"sam@x.com">>}
RegisterPasswords == {Undefined, <<"p">>}

Register(s) ==
    \/ \E username \in RegisterNames, email \in RegisterEmails,
          password \in RegisterPasswords : PostRegister(s, username, email, password)
    \/ RegisterSelect(s)
    \/ RegisterHash(s)
    \/ RegisterInsert(s)

\* One register request at a time.
NextRegister == Register(1)

SpecRegister == InitServing /\ [][NextRegister]_vars

\* Register requests of two clients, interleaved at the awaits.
NextRegisterConcurrent == \E s \in Slots : Register(s)

SpecRegisterConcurrent == InitServing /\ [][NextRegisterConcurrent]_vars

(***************************************************************************)
(* PUT /api/users/:id/ghost-buster.  body.isGhostBuster is "true",         *)
(* "false" or absent.                                                      *)
(***************************************************************************)
Booleans == {"true", "false"}

GhostBusterAccepts(row) ==
    /\ \A r \in Ghost_Buster : r.userID # row.userID
    /\ row.userID \in RowIds(User)

PutGhostBuster(s, userId, isGhostBuster) ==
    /\ Free(s)
    /\ req' = [req EXCEPT ![s] =
            [op |-> "PUT ghost-buster", pc |-> "wait", status |-> 0, body |-> Error(""),
             userId |-> userId, isGhostBuster |-> isGhostBuster]]
    /\ UNCHANGED <<store, now, useSqlite, dbClient, boot, del, ui>>

GhostBusterToggle(s) ==
    LET existing == {r \in Ghost_Buster : r.userID = req[s].userId}
        fights == {r \in Ghost_Buster_Fights_Ghost : r.userID = req[s].userId}
    IN  /\ req[s].op = "PUT ghost-buster" /\ req[s].pc = "wait"
        /\ Ready
        /\ IF req[s].isGhostBuster \notin Booleans
           THEN /\ Respond(s, 400, Error("isGhostBuster boolean required"))
                /\ UNCHANGED Ghost_Buster
           ELSE IF req[s].isGhostBuster = "true"
           THEN /\ IF existing # {}
                   THEN LET e == CHOOSE r \in existing : TRUE
                        IN  Respond(s, 200, [isGhostBuster |-> TRUE,
                                             ghosts_busted |-> e.ghosts_busted,
                                             alias |-> e.alias])
                   ELSE req' = [req EXCEPT ![s] = [@ EXCEPT !.pc = "insert"]]
                /\ UNCHANGED Ghost_Buster
           ELSE IF fights # {}
                THEN /\ Respond(s, 500, Error("internal"))
                     /\ UNCHANGED Ghost_Buster
                ELSE /\ Ghost_Buster' = Ghost_Buster \ existing
                     /\ Respond(s, 200, [isGhostBuster |-> FALSE])
        /\ UNCHANGED <<User, Sighting, Ghost, Tour, Sighting_Comment, Ghost_Comment,
                       Sighting_Reports_Ghost, Tour_Includes, Tour_Sign_Up,
                       Ghost_Buster_Fights_Ghost, autoInc, schema,
                       now, useSqlite, dbClient, boot, del, ui>>

GhostBusterInsert(s) ==
    LET row == [userID |-> req[s].userId, ghosts_busted |-> 0, alias |-> NullText]
    IN  /\ req[s].op = "PUT ghost-buster" /\ req[s].pc = "insert"
        /\ IF GhostBusterAccepts(row)
           THEN /\ Ghost_Buster' = Ghost_Buster \cup {row}
                /\ Respond(s, 201, [isGhostBuster |-> TRUE, ghosts_busted |-> 0,
                                    alias |-> NullText])
           ELSE /\ UNCHANGED Ghost_Buster
                /\ Respond(s, 500, Error("internal"))
        /\ UNCHANGED <<User, Sighting, Ghost, Tour, Sighting_Comment, Ghost_Comment,
                       Sighting_Reports_Ghost, Tour_Includes, Tour_Sign_Up,
                       Ghost_Buster_Fights_Ghost, autoInc, schema,
                       now, useSqlite, dbClient, boot, del, ui>>

\* GET /api/users/:id/ghost-buster: one SELECT, answered in the same step.
GetGhostBuster(s, userId) ==
    LET rows == {r \in Ghost_Buster : r.userID = userId}
        answer == IF rows = {}
                  THEN [status |-> 404, body |-> Error("not_a_ghost_buster")]
                  ELSE LET r == CHOOSE x \in rows : TRUE
                       IN  [status |-> 200,
                            body |-> [isGhostBuster |-> TRUE,
                                      ghosts_busted |-> IF r.ghosts_busted = Null
                                                        THEN 0 ELSE r.ghosts_busted,
                                      alias |-> IF r.alias = EmptyString
                                                THEN NullText ELSE r.alias]]
    IN  /\ Free(s)
        /\ Ready
        /\ req' = [req EXCEPT ![s] =
                [op |-> "GET ghost-buster", pc |-> "done", status |-> answer.status,
                 body |-> answer.body, userId |-> userId]]
        /\ UNCHANGED <<store, now, useSqlite, dbClient, boot, del, ui>>

(***************************************************************************)
(* PUT /api/users/:id/ghost-buster/alias.  The body's alias is null or     *)
(* undefined (Undefined), a string, or a value of another type.            *)
(***************************************************************************)
NotAString == <<"typeof", "number">>
Aliases == {Undefined, EmptyString, <<"a1">>, NotAString}

PutAlias(s, userId, alias) ==
    /\ Free(s)
    /\ req' = [req EXCEPT ![s] =
            [op |-> "PUT alias", pc |-> "wait", status |-> 0, body |-> Error(""),
             userId |-> userId, alias |-> alias]]
    /\ UNCHANGED <<store, now, useSqlite, dbClient, boot, del, ui>>

\* SELECT userID FROM Ghost_Buster WHERE userID = ?
AliasSelect(s) ==
    LET existing == {r \in Ghost_Buster : r.userID = req[s].userId}
    IN  /\ req[s].op = "PUT alias" /\ req[s].pc = "wait"
        /\ Ready
        /\ IF req[s].alias = NotAString
           THEN Respond(s, 400, Error("alias must be a string or null"))
           ELSE req' = [req EXCEPT ![s] =
                    [@ EXCEPT !.pc = IF existing # {} THEN "update" ELSE "insert"]]
        /\ UNCHANGED <<store, now, useSqlite, dbClient, boot, del, ui>>

\* UPDATE Ghost_Buster SET alias = ? WHERE userID = ?
AliasUpdate(s) ==
    /\ req[s].op = "PUT alias" /\ req[s].pc = "update"
    /\ Ghost_Buster' = {IF r.userID = req[s].userId
                        THEN [r EXCEPT !.alias = req[s].alias] ELSE r :
                            r \in Ghost_Buster}
    /\ Respond(s, 200, [alias |-> req[s].alias])
    /\ UNCHANGED <<User, Sighting, Ghost, Tour, Sighting_Comment, Ghost_Comment,
                   Sighting_Reports_Ghost, Tour_Includes, Tour_Sign_Up,
                   Ghost_Buster_Fights_Ghost, autoInc, schema,
                   now, useSqlite, dbClient, boot, del, ui>>

\* INSERT INTO Ghost_Buster (userID, ghosts_busted, alias) VALUES (?, 0, alias || null)
AliasInsert(s) ==
    LET alias == IF Truthy(req[s].alias) THEN req[s].alias ELSE NullText
        row == [userID |-> req[s].userId, ghosts_busted |-> 0, alias |-> alias]
    IN  /\ req[s].op = "PUT alias" /\ req[s].pc = "insert"
        /\ IF GhostBusterAccepts(row)
           THEN /\ Ghost_Buster' = Ghost_Buster \cup {row}
                /\ Respond(s, 201, [alias |-> alias])
           ELSE /\ UNCHANGED Ghost_Buster
                /\ Respond(s, 500, Error("internal"))
        /\ UNCHANGED <<User, Sighting, Ghost, Tour, Sighting_Comment, Ghost_Comment,
                       Sighting_Reports_Ghost, Tour_Includes, Tour_Sign_Up,
                       Ghost_Buster_Fights_Ghost, autoInc, schema,
                       now, useSqlite, dbClient, boot, del, ui>>

(***************************************************************************)
(* PUT /api/users/:id/fights/:ghostId.  incrementGhostsBustedTrigger       *)
(* (AFTER INSERT) acts only in a store that holds it; no bootstrap         *)
(* installs it.                                                            *)
(***************************************************************************)
\* The table without its foreign key to Ghost_Buster.
FightsAcceptsAnyUser(row) ==
    /\ row \notin Ghost_Buster_Fights_Ghost
    /\ row.ghostID \in RowIds(Ghost)

FightsAccepts(row) ==
    /\ row \notin Ghost_Buster_Fights_Ghost
    /\ \E r \in Ghost_Buster : r.userID = row.userID
    /\ row.ghostID \in RowIds(Ghost)

\* The trigger as db_init.sql writes it, held by the store.
AfterInsertOnFightsInstalled(row) ==
    {IF r.userID = row.userID
     THEN [r EXCEPT !.ghosts_busted = @ + 1] ELSE r : r \in Ghost_Buster}

AfterInsertOnFights(row) ==
    IF "incrementGhostsBustedTrigger" \in schema
    THEN {IF r.userID = row.userID
          THEN [r EXCEPT !.ghosts_busted = @ + 1] ELSE r : r \in Ghost_Buster}
    ELSE Ghost_Buster

PutFights(s, userId, ghostId, fighting) ==
    /\ Free(s)
    /\ req' = [req EXCEPT ![s] =
            [op |-> "PUT fights", pc |-> "wait", status |-> 0, body |-> Error(""),
             userId |-> userId, ghostId |-> ghostId, fighting |-> fighting]]
    /\ UNCHANGED <<store, now, useSqlite, dbClient, boot, del, ui>>

FightsToggle(s) ==
    LET row == [userID |-> req[s].userId, ghostID |-> req[s].ghostId]
        answer(f) == [fighting |-> f, ghostId |-> req[s].ghostId, userId |-> req[s].userId]
    IN  /\ req[s].op = "PUT fights" /\ req[s].pc = "wait"
        /\ Ready
        /\ IF req[s].fighting \notin Booleans
           THEN /\ Respond(s, 400, Error("fighting boolean required"))
                /\ UNCHANGED Ghost_Buster_Fights_Ghost
           ELSE IF req[s].fighting = "true"
           THEN /\ IF row \in Ghost_Buster_Fights_Ghost
                   THEN Respond(s, 200, answer(TRUE))
                   ELSE req' = [req EXCEPT ![s] = [@ EXCEPT !.pc = "insert"]]
                /\ UNCHANGED Ghost_Buster_Fights_Ghost
           ELSE /\ Ghost_Buster_Fights_Ghost' = Ghost_Buster_Fights_Ghost \ {row}
                /\ Respond(s, 200, answer(FALSE))
        /\ UNCHANGED <<User, Ghost_Buster, Sighting, Ghost, Tour, Sighting_Comment,
                       Ghost_Comment, Sighting_Reports_Ghost, Tour_Includes,
                       Tour_Sign_Up, autoInc, schema,
                       now, useSqlite, dbClient, boot, del, ui>>

FightsInsert(s) ==
    LET row == [userID |-> req[s].userId, ghostID |-> req[s].ghostId]
    IN  /\ req[s].op = "PUT fights" /\ req[s].pc = "insert"
        /\ IF FightsAccepts(row)
           THEN /\ Ghost_Buster_Fights_Ghost' = Ghost_Buster_Fights_Ghost \cup {row}
                /\ Ghost_Buster' = AfterInsertOnFights(row)
                /\ Respond(s, 201, [fighting |-> TRUE, ghostId |-> req[s].ghostId,
                                    userId |-> req[s].userId])
           ELSE /\ UNCHANGED <<Ghost_Buster_Fights_Ghost, Ghost_Buster>>
                /\ Respond(s, 500, Error("internal"))
        /\ UNCHANGED <<User, Sighting, Ghost, Tour, Sighting_Comment,
                       Ghost_Comment, Sighting_Reports_Ghost, Tour_Includes,
                       Tour_Sign_Up, autoInc, schema,
                       now, useSqlite, dbClient, boot, del, ui>>

(***************************************************************************)
(* PUT /api/users/:id/ghost-buster/bust: server.js registers no such       *)
(* route, so Express answers 404 without touching the store.               *)
(***************************************************************************)
PutBust(s, userId) ==
    /\ Free(s)
    /\ req' = [req EXCEPT ![s] =
            [op |-> "PUT bust", pc |-> "wait", status |-> 0, body |-> Error(""),
             userId |-> userId]]
    /\ UNCHANGED <<store, now, useSqlite, dbClient, boot, del, ui>>

BustNotFound(s) ==
    /\ req[s].op = "PUT bust" /\ req[s].pc = "wait"
    /\ Respond(s, 404, Error("Cannot PUT"))
    /\ UNCHANGED <<store, now, useSqlite, dbClient, boot, del, ui>>

(***************************************************************************)
(* The GhostDetail page of a logged-in user: it sends its requests through *)
(* slot 1 and awaits each answer.                                          *)
(***************************************************************************)
Ok(s) == req[s].status \in 200..299

\* fetchGhostBusterStatus: GET ghost-buster, then GET fights when it answered ok.
OpenGhostDetail(user, ghost) ==
    LET rows == {r \in Ghost_Buster : r.userID = user}
        fights == [userID |-> user, ghostID |-> ghost] \in Ghost_Buster_Fights_Ghost
    IN  /\ ui.pc \in {"idle", "shown"}
        /\ Ready
        /\ ui' = IF rows = {}
                 THEN [Closed EXCEPT !.pc = "shown", !.user = user, !.ghost = ghost]
                 ELSE [pc |-> "shown", user |-> user, ghost |-> ghost,
                       isGhostBuster |-> TRUE, isFighting |-> fights,
                       ghostsBusted |-> (CHOOSE r \in rows : TRUE).ghosts_busted,
                       error |-> "null"]
        /\ UNCHANGED <<store, now, useSqlite, dbClient, boot, req, del>>

Send(request) ==
    /\ Free(1)
    /\ req' = [req EXCEPT ![1] = request]

FightsRequest(fighting) ==
    [op |-> "PUT fights", pc |-> "wait", status |-> 0, body |-> Error(""),
     userId |-> ui.user, ghostId |-> ui.ghost, fighting |-> fighting]

handleStartFight ==
    /\ ui.pc = "shown" /\ ui.isGhostBuster /\ ~ui.isFighting
    /\ Send(FightsRequest("true"))
    /\ ui' = [ui EXCEPT !.pc = "start"]
    /\ UNCHANGED <<store, now, useSqlite, dbClient, boot, del>>

StartFightAnswered ==
    /\ ui.pc = "start" /\ req[1].pc = "done"
    /\ ui' = IF Ok(1)
             THEN [ui EXCEPT !.pc = "shown", !.isFighting = TRUE]
             ELSE [ui EXCEPT !.pc = "shown", !.error = "Failed to start fight"]
    /\ UNCHANGED <<store, now, useSqlite, dbClient, boot, req, del>>

\* First, cancel the fight
handleBustGhost ==
    /\ ui.pc = "shown" /\ ui.isGhostBuster /\ ui.isFighting
    /\ Send(FightsRequest("false"))
    /\ ui' = [ui EXCEPT !.pc = "cancel"]
    /\ UNCHANGED <<store, now, useSqlite, dbClient, boot, del>>

\* Then increment ghosts_busted
BustAfterCancel ==
    /\ ui.pc = "cancel" /\ req[1].pc = "done"
    /\ Send([op |-> "PUT bust", pc |-> "wait", status |-> 0, body |-> Error(""),
             userId |-> ui.user])
    /\ ui' = [ui EXCEPT !.pc = "bust"]
    /\ UNCHANGED <<store, now, useSqlite, dbClient, boot, del>>

BustAnswered ==
    /\ ui.pc = "bust" /\ req[1].pc = "done"
    /\ ui' = IF Ok(1)
             THEN [ui EXCEPT !.pc = "shown", !.isFighting = FALSE,
                             !.ghostsBusted = req[1].body.ghosts_busted,
                             !.error = "null"]
             ELSE [ui EXCEPT !.pc = "shown", !.error = "Failed to bust ghost"]
    /\ UNCHANGED <<store, now, useSqlite, dbClient, boot, req, del>>

\* The page in slot 1; requests of other clients in slot 2.
NextBust ==
    \/ \E user \in UserIds, ghost \in GhostIds : OpenGhostDetail(user, ghost)
    \/ handleStartFight
    \/ StartFightAnswered
    \/ handleBustGhost
    \/ BustAfterCancel
    \/ BustAnswered
    \/ FightsToggle(1)
    \/ FightsInsert(1)
    \/ BustNotFound(1)
    \/ \E userId \in 1..NumUsers + 1, b \in Booleans \cup {"undefined"} :
            PutGhostBuster(2, userId, b)
    \/ GhostBusterToggle(2)
    \/ GhostBusterInsert(2)

SpecBust == InitServing /\ [][NextBust]_vars

\* Ghost-buster status and fights of every user id, one request at a time.
NextGhostBuster ==
    \/ \E userId \in 1..NumUsers + 1, b \in Booleans \cup {"undefined"} :
            PutGhostBuster(1, userId, b)
    \/ GhostBusterToggle(1)
    \/ GhostBusterInsert(1)
    \/ \E userId \in 1..NumUsers, ghostId \in GhostIds, b \in Booleans :
            PutFights(1, userId, ghostId, b)
    \/ FightsToggle(1)
    \/ FightsInsert(1)
    \/ \E userId \in 1..NumUsers + 1 : GetGhostBuster(1, userId)

SpecGhostBuster == InitServing /\ [][NextGhostBuster]_vars

(***************************************************************************)
(* POST /api/sightings.  Ids in the body are positive numbers, NoId when   *)
(* the field is absent and EmptyId when it is the empty string.  The       *)
(* INSERT names the column Sighting.description, which CREATE TABLE        *)
(* Sighting of db_init.sql does not declare: the engine accepts the        *)
(* statement only in a store whose Sighting table has the column.          *)
(***************************************************************************)
NoId == 0
EmptyId == -2
MaxPosts == 2

DescriptionColumn == "Sighting.description"

\* Number(visibility), with NaN for a text that is no number
NaN == -3
Number(v) ==
    CASE v = <<"9">> -> 9
      [] v = <<"99">> -> 99
      [] v = EmptyString -> 0
      [] OTHER -> NaN

Reporter(s) == IF req[s].userReportID > 0 THEN req[s].userReportID ELSE req[s].userId

MissingFieldsReporterOnly(s) == ~(Reporter(s) > 0)

\* if (!reporter || !description)
MissingFields(s) == ~(Reporter(s) > 0) \/ ~Truthy(req[s].description)

visibilityNum(s) ==
    IF req[s].visibility # Undefined /\ Number(req[s].visibility) # NaN
    THEN Number(req[s].visibility)
    ELSE 5

fullDescription(s) ==
    IF Truthy(req[s].timeOfSighting)
    THEN <<"Reported time: ">> \o req[s].timeOfSighting \o <<"\n">> \o req[s].description
    ELSE req[s].description

SightingAccepts(row) ==
    /\ DescriptionColumn \in schema
    /\ row.id \notin RowIds(Sighting)
    /\ row.userReportID \in RowIds(User)

SightingReportsGhostAccepts(row) ==
    /\ row \notin Sighting_Reports_Ghost
    /\ row.sightingID \in RowIds(Sighting)
    /\ row.ghostID \in RowIds(Ghost)

PostSighting(s, userReportID, userId, description, ghostID, timeOfSighting, visibility) ==
    /\ Free(s)
    /\ autoInc.Sighting < 1 + MaxPosts
    /\ req' = [req EXCEPT ![s] =
            [op |-> "POST sightings", pc |-> "wait", status |-> 0, body |-> Error(""),
             userReportID |-> userReportID, userId |-> userId,
             description |-> description, ghostID |-> ghostID,
             timeOfSighting |-> timeOfSighting, visibility |-> visibility,
             sightingId |-> NoId, finalGhostId |-> NoId]]
    /\ UNCHANGED <<store, now, useSqlite, dbClient, boot, del, ui>>

SightingInsert(s) ==
    LET id == autoInc.Sighting + 1
        row == [id |-> id, visibility |-> visibilityNum(s), time |-> now,
                userReportID |-> Reporter(s), description |-> fullDescription(s)]
    IN  /\ req[s].op = "POST sightings" /\ req[s].pc = "wait"
        /\ IF MissingFields(s)
           THEN /\ Respond(s, 400, Error("missing_fields"))
                /\ UNCHANGED <<Sighting, autoInc>>
           ELSE /\ Ready
                /\ IF SightingAccepts(row)
                   THEN /\ Sighting' = Sighting \cup {row}
                        /\ autoInc' = [autoInc EXCEPT !.Sighting = id]
                        /\ req' = [req EXCEPT ![s] =
                                [@ EXCEPT !.sightingId = id,
                                          !.finalGhostId =
                                                IF req[s].ghostID > 0
                                                THEN req[s].ghostID ELSE NoId,
                                          !.pc = IF req[s].ghostID > 0
                                                 THEN "link" ELSE "unknown"]]
                   ELSE /\ UNCHANGED <<Sighting, autoInc>>
                        /\ Respond(s, 500, Error("internal"))
        /\ UNCHANGED <<User, Ghost_Buster, Ghost, Tour, Sighting_Comment,
                       Ghost_Comment, Sighting_Reports_Ghost, Tour_Includes,
                       Tour_Sign_Up, Ghost_Buster_Fights_Ghost, schema,
                       now, useSqlite, dbClient, boot, del, ui>>

unknownGhostsNone == {}

\* SELECT id FROM Ghost WHERE name = 'Unknown' LIMIT 1
unknownGhosts == {g.id : g \in {x \in Ghost : x.name = <<"Unknown">>}}

SightingFindUnknown(s) ==
    /\ req[s].op = "POST sightings" /\ req[s].pc = "unknown"
    /\ IF unknownGhosts # {}
       THEN \E id \in unknownGhosts :
                req' = [req EXCEPT ![s] = [@ EXCEPT !.finalGhostId = id, !.pc = "link"]]
       ELSE req' = [req EXCEPT ![s] = [@ EXCEPT !.pc = "create"]]
    /\ UNCHANGED <<store, now, useSqlite, dbClient, boot, del, ui>>

SightingCreateUnknown(s) ==
    LET id == autoInc.Ghost + 1
    IN  /\ req[s].op = "POST sightings" /\ req[s].pc = "create"
        /\ Ghost' = Ghost \cup {[id |-> id, name |-> <<"Unknown">>,
                                 visibility |-> visibilityNum(s)]}
        /\ autoInc' = [autoInc EXCEPT !.Ghost = id]
        /\ req' = [req EXCEPT ![s] = [@ EXCEPT !.finalGhostId = id, !.pc = "link"]]
        /\ UNCHANGED <<User, Ghost_Buster, Sighting, Tour, Sighting_Comment,
                       Ghost_Comment, Sighting_Reports_Ghost, Tour_Includes,
                       Tour_Sign_Up, Ghost_Buster_Fights_Ghost, schema,
                       now, useSqlite, dbClient, boot, del, ui>>

\* A link step whose failure takes the Sighting row back (one transaction).
SightingLinkRollingBack(s) ==
    LET row == [sightingID |-> req[s].sightingId, ghostID |-> req[s].finalGhostId]
    IN  /\ req[s].op = "POST sightings" /\ req[s].pc = "link"
        /\ IF SightingReportsGhostAccepts(row)
           THEN /\ Sighting_Reports_Ghost' = Sighting_Reports_Ghost \cup {row}
                /\ req' = [req EXCEPT ![s] = [@ EXCEPT !.pc = "read"]]
                /\ UNCHANGED Sighting
           ELSE /\ UNCHANGED Sighting_Reports_Ghost
                /\ Sighting' = {r \in Sighting : r.id # req[s].sightingId}
                /\ Respond(s, 500, Error("internal"))
        /\ UNCHANGED <<User, Ghost_Buster, Ghost, Tour, Sighting_Comment,
                       Ghost_Comment, Tour_Includes, Tour_Sign_Up,
                       Ghost_Buster_Fights_Ghost, autoInc, schema,
                       now, useSqlite, dbClient, boot, del, ui>>

SightingLink(s) ==
    LET row == [sightingID |-> req[s].sightingId, ghostID |-> req[s].finalGhostId]
    IN  /\ req[s].op = "POST sightings" /\ req[s].pc = "link"
        /\ IF SightingReportsGhostAccepts(row)
           THEN /\ Sighting_Reports_Ghost' = Sighting_Reports_Ghost \cup {row}
                /\ req' = [req EXCEPT ![s] = [@ EXCEPT !.pc = "read"]]
           ELSE /\ UNCHANGED Sighting_Reports_Ghost
                /\ Respond(s, 500, Error("internal"))
        /\ UNCHANGED <<User, Ghost_Buster, Sighting, Ghost, Tour, Sighting_Comment,
                       Ghost_Comment, Tour_Includes, Tour_Sign_Up,
                       Ghost_Buster_Fights_Ghost, autoInc, schema,
                       now, useSqlite, dbClient, boot, del, ui>>

\* r.description || fullDescription
Or(v, w) == IF v # NullText /\ v # EmptyString THEN v ELSE w

\* The DATETIME column as the driver returns it and res.json writes it:
\* node-sqlite3 gives the stored text of datetime('now'), mysql2 a Date that
\* JSON.stringify writes in ISO 8601.
timeColumn(sqlite, t) ==
    IF sqlite THEN <<"YYYY-MM-DD HH:MM:SS", t>> ELSE <<"YYYY-MM-DDTHH:MM:SS.sssZ", t>>

\* The 201 body built from the row r that was read back.
SightingCreated(s, r, sqlite) ==
    [id |-> r.id,
     visibility |-> IF r.visibility \notin {0, Null}
                    THEN r.visibility ELSE visibilityNum(s),
     time |-> timeColumn(sqlite, r.time),
     userReportID |-> r.userReportID,
     description |-> Or(r.description, fullDescription(s))]

SightingRead(s) ==
    LET rows == {r \in Sighting : r.id = req[s].sightingId}
    IN  /\ req[s].op = "POST sightings" /\ req[s].pc = "read"
        /\ IF rows = {}
           THEN Respond(s, 500, Error("internal"))
           ELSE LET r == CHOOSE x \in rows : TRUE
                IN  Respond(s, 201, SightingCreated(s, r, useSqlite))
        /\ UNCHANGED <<store, now, useSqlite, dbClient, boot, del, ui>>

ReporterIds == {NoId, 1, NumUsers + 1}
GhostIdInputs == {NoId, EmptyId, 1, NumGhosts + 2}
TimesOfSighting == {Undefined, EmptyString, <<"t1">>}
Visibilities == {Undefined, <<"9">>, <<"abc">>}
SightingDescriptions == {Undefined, EmptyString, <<"d1">>}

\* A store in service whose Sighting table may carry the description column.
InitSighting ==
    /\ ServingRows
    /\ schema \in {AllTables, AllTables \cup {DescriptionColumn}}

\* Sighting reports, one request at a time.
NextSighting ==
    \/ \E userReportID \in ReporterIds, userId \in {NoId, 2}, d \in SightingDescriptions,
          ghostID \in GhostIdInputs, t \in TimesOfSighting, v \in Visibilities :
            PostSighting(1, userReportID, userId, d, ghostID, t, v)
    \/ SightingInsert(1)
    \/ SightingFindUnknown(1)
    \/ SightingCreateUnknown(1)
    \/ SightingLink(1)
    \/ SightingRead(1)

SpecSighting == InitSighting /\ [][NextSighting]_vars

\* Sighting reports of user 1 with every kind of visibility value.
NextVisibility ==
    \/ \E ghostID \in {NoId, 1},
          v \in Visibilities \cup {EmptyString, <<"99">>} :
            PostSighting(1, 1, NoId, <<"d1">>, ghostID, Undefined, v)
    \/ SightingInsert(1)
    \/ SightingFindUnknown(1)
    \/ SightingCreateUnknown(1)
    \/ SightingLink(1)
    \/ SightingRead(1)

SpecVisibility == InitSighting /\ [][NextVisibility]_vars

(***************************************************************************)
(* PUT /api/sightings/:sightingId/ghost-name.  The ghost renamed is the    *)
(* one of some link row of the sighting (LIMIT 1 without ORDER BY).        *)
(***************************************************************************)
PutGhostName(s, sightingId, newName) ==
    /\ Free(s)
    /\ req' = [req EXCEPT ![s] =
            [op |-> "PUT ghost-name", pc |-> "wait", status |-> 0, body |-> Error(""),
             sightingId |-> sightingId, newName |-> newName, ghostId |-> NoId]]
    /\ UNCHANGED <<store, now, useSqlite, dbClient, boot, del, ui>>

\* SELECT ghostID FROM Sighting_Reports_Ghost WHERE sightingID = ? LIMIT 1
GhostNameSelect(s) ==
    LET linked == {r \in Sighting_Reports_Ghost : r.sightingID = req[s].sightingId}
    IN  /\ req[s].op = "PUT ghost-name" /\ req[s].pc = "wait"
        /\ Ready
        /\ IF ~Truthy(req[s].newName)
           THEN Respond(s, 400, Error("newName is required"))
           ELSE IF linked = {}
           THEN Respond(s, 404, Error("no_ghost_linked"))
           ELSE \E r \in linked :
                    IF r.ghostID \in {NoId, Null}
                    THEN Respond(s, 500, Error("invalid_ghost_id"))
                    ELSE req' = [req EXCEPT ![s] =
                                    [@ EXCEPT !.ghostId = r.ghostID, !.pc = "update"]]
        /\ UNCHANGED <<store, now, useSqlite, dbClient, boot, del, ui>>

\* UPDATE Ghost SET name = ? WHERE id = ?
GhostNameUpdate(s) ==
    /\ req[s].op = "PUT ghost-name" /\ req[s].pc = "update"
    /\ Ghost' = {IF g.id = req[s].ghostId THEN [g EXCEPT !.name = req[s].newName] ELSE g :
                    g \in Ghost}
    /\ Respond(s, 200, [success |-> TRUE, ghostId |-> req[s].ghostId,
                         newName |-> req[s].newName])
    /\ UNCHANGED <<User, Ghost_Buster, Sighting, Tour, Sighting_Comment, Ghost_Comment,
                   Sighting_Reports_Ghost, Tour_Includes, Tour_Sign_Up,
                   Ghost_Buster_Fights_Ghost, autoInc, schema,
                   now, useSqlite, dbClient, boot, del, ui>>

\* Sighting reports without a ghost id and renamings, two requests in flight.
NextGhostName ==
    \/ \E s \in Slots : PostSighting(s, 1, NoId, <<"d1">>, NoId, Undefined, Undefined)
    \/ \E s \in Slots : SightingInsert(s)
    \/ \E s \in Slots : SightingFindUnknown(s)
    \/ \E s \in Slots : SightingCreateUnknown(s)
    \/ \E s \in Slots : SightingLink(s)
    \/ \E s \in Slots : SightingRead(s)
    \/ \E s \in Slots, sightingId \in 1..2,
          newName \in {Undefined, <<"Unknown">>, <<"Casper">>} :
            PutGhostName(s, sightingId, newName)
    \/ \E s \in Slots : GhostNameSelect(s)
    \/ \E s \in Slots : GhostNameUpdate(s)

SpecGhostName == InitSighting /\ [][NextGhostName]_vars

(***************************************************************************)
(* The lists.  ORDER BY gives the rows in some order that agrees with the  *)
(* sort key; rows with equal keys come in any order.  Each handler runs    *)
(* one SELECT and answers in the same step.  Orderings(S, key, 1) are the  *)
(* orders of ORDER BY key ASC, Orderings(S, key, -1) those of DESC.         *)
(***************************************************************************)
OrderingsUnsorted(S, key, sign) ==
    {q \in [1..Cardinality(S) -> S] : \A i, j \in DOMAIN q : i < j => q[i] # q[j]}

Orderings(S, key, sign) ==
    {q \in [1..Cardinality(S) -> S] :
        \A i, j \in DOMAIN q :
            i < j => q[i] # q[j] /\ sign * q[i][key] <= sign * q[j][key]}

\* (SELECT G.name FROM Sighting_Reports_Ghost SRG LEFT JOIN Ghost G ...
\*  WHERE SRG.sightingID = S.id LIMIT 1), then r.ghost_name || 'Unknown'
ghost_name(r) ==
    LET names == {g.name : g \in {x \in Ghost :
                        [sightingID |-> r.id, ghostID |-> x.id]
                            \in Sighting_Reports_Ghost}}
    IN  IF names = {} THEN {<<"Unknown">>} ELSE {Or(n, <<"Unknown">>) : n \in names}

\* A list handler without the wait for dbClient.
GetSightingsWithoutWaiting(s) ==
    /\ Free(s)
    /\ req' = [req EXCEPT ![s] =
            [op |-> "GET sightings", pc |-> "done", status |-> 500,
             body |-> Error("internal")]]
    /\ UNCHANGED <<store, now, useSqlite, dbClient, boot, del, ui>>

\* GET /api/sightings
GetSightings(s) ==
    /\ Free(s)
    /\ Ready
    /\ IF DescriptionColumn \notin schema
       THEN req' = [req EXCEPT ![s] =
                [op |-> "GET sightings", pc |-> "done", status |-> 500,
                 body |-> Error("internal")]]
       ELSE \E rows \in Orderings(Sighting, "time", -1) :
            \E name \in [Sighting -> UNION {ghost_name(r) : r \in Sighting}] :
                /\ \A r \in Sighting : name[r] \in ghost_name(r)
                /\ req' = [req EXCEPT ![s] =
                        [op |-> "GET sightings", pc |-> "done", status |-> 200,
                         body |-> [list |-> [i \in DOMAIN rows |->
                            [id |-> rows[i].id,
                             visibility |-> IF rows[i].visibility = Null
                                            THEN 0 ELSE rows[i].visibility,
                             time |-> IF rows[i].time = Null THEN now ELSE rows[i].time,
                             userReportID |-> rows[i].userReportID,
                             description |-> Or(rows[i].description, EmptyString),
                             ghostName |-> name[rows[i]]]]]]]
    /\ UNCHANGED <<store, now, useSqlite, dbClient, boot, del, ui>>

\* r.username || `User ${r.userID}` of the LEFT JOIN User
username(userID) ==
    LET U == {u \in User : u.id = userID}
    IN  IF U = {} THEN <<"User", userID>> ELSE (CHOOSE u \in U : TRUE).username

\* GET /api/sightings/:sightingId/comments
GetSightingComments(s, sightingId) ==
    /\ Free(s)
    /\ Ready
    /\ \E rows \in Orderings({r \in Sighting_Comment : r.sightingID = sightingId},
                              "reportTime", 1) :
            req' = [req EXCEPT ![s] =
                [op |-> "GET sighting comments", pc |-> "done", status |-> 200,
                 sightingId |-> sightingId,
                 body |-> [list |-> [i \in DOMAIN rows |->
                    [userID |-> rows[i].userID, sightingID |-> rows[i].sightingID,
                     reportTime |-> rows[i].reportTime,
                     description |-> Or(rows[i].description, EmptyString),
                     username |-> username(rows[i].userID)]]]]]
    /\ UNCHANGED <<store, now, useSqlite, dbClient, boot, del, ui>>

\* GET /api/ghosts/:ghostId/comments
GetGhostComments(s, ghostId) ==
    /\ Free(s)
    /\ Ready
    /\ \E rows \in Orderings({r \in Ghost_Comment : r.ghostID = ghostId},
                              "reportTime", 1) :
            req' = [req EXCEPT ![s] =
                [op |-> "GET ghost comments", pc |-> "done", status |-> 200,
                 ghostId |-> ghostId,
                 body |-> [list |-> [i \in DOMAIN rows |->
                    [userID |-> rows[i].userID, ghostID |-> rows[i].ghostID,
                     reportTime |-> rows[i].reportTime,
                     description |-> Or(rows[i].description, EmptyString),
                     username |-> username(rows[i].userID)]]]]]
    /\ UNCHANGED <<store, now, useSqlite, dbClient, boot, del, ui>>

\* Sightings reported at different times and listed, one request at a time.
NextSightingList ==
    \/ \E ghostID \in {NoId, 1, NumGhosts + 2} :
            PostSighting(1, 1, NoId, <<"d1">>, ghostID, Undefined, Undefined)
    \/ SightingInsert(1)
    \/ SightingFindUnknown(1)
    \/ SightingCreateUnknown(1)
    \/ SightingLink(1)
    \/ SightingRead(1)
    \/ Tick
    \/ GetSightings(1)

SpecSightingList == InitSighting /\ [][NextSightingList]_vars

(***************************************************************************)
(* Comment posts, one request at a time.                                   *)
(***************************************************************************)
NextComment ==
    \/ \E sightingId \in 1..2, userID \in 0..NumUsers + 1, d \in BodyStrings :
            PostSightingComment(1, sightingId, userID, d)
    \/ SightingCommentSelect(1)
    \/ SightingCommentWrite(1)
    \/ \E ghostId \in 1..NumGhosts + 1, userID \in 0..NumUsers + 1, d \in BodyStrings :
            PostGhostComment(1, ghostId, userID, d)
    \/ GhostCommentSelect(1)
    \/ GhostCommentWrite(1)
    \/ Tick

SpecComment == InitServing /\ [][NextComment]_vars

\* Comments posted through slot 1, one at a time, and listed through slot 2,
\* of targets that exist or not.
NextCommentList ==
    \/ \E userID \in UserIds : PostSightingComment(1, 1, userID, <<"d1">>)
    \/ SightingCommentSelect(1)
    \/ SightingCommentWrite(1)
    \/ \E userID \in 1..2 : PostGhostComment(1, 1, userID, <<"d1">>)
    \/ GhostCommentSelect(1)
    \/ GhostCommentWrite(1)
    \/ Tick
    \/ \E sightingId \in 1..2 : GetSightingComments(2, sightingId)
    \/ \E ghostId \in 1..2 : GetGhostComments(2, ghostId)

SpecCommentList == InitServing /\ [][NextCommentList]_vars

(***************************************************************************)
(* Tour membership, one request at a time.                                 *)
(***************************************************************************)
NextTour ==
    \/ \E tourId \in 1..2, userID \in 0..NumUsers + 1 : PostJoinTour(1, tourId, userID)
    \/ JoinSelect(1)
    \/ JoinInsert(1)
    \/ \E tourId \in 1..2, userID \in 0..NumUsers + 1 : DeleteLeaveTour(1, tourId, userID)
    \/ LeaveDelete(1)

SpecTour == InitServing /\ [][NextTour]_vars

\* Tours created one request at a time.  The ghost lists are the lists of
\* at most two ids, of ghosts that exist or not.
NextTourCreate ==
    \/ \E guide \in {Undefined, <<"g">>}, path \in {EmptyString, <<"p">>},
          startTime \in 0..MaxTime + 1, endTime \in 0..MaxTime + 1,
          isArray \in BOOLEAN,
          items \in UNION {[1..n -> 1..NumGhosts + 1] : n \in 0..2} :
            /\ isArray \/ items = << >>
            /\ PostTour(1, guide, path, startTime, endTime,
                        [isArray |-> isArray, items |-> items])
    \/ TourInsert(1)
    \/ TourInclude(1)

SpecTourCreate == InitServing /\ [][NextTourCreate]_vars

(***************************************************************************)
(* The store as one value, and the foreign keys of the schema.             *)
(***************************************************************************)
Db ==
    [User |-> User, Ghost_Buster |-> Ghost_Buster, Sighting |-> Sighting,
     Ghost |-> Ghost, Tour |-> Tour, Sighting_Comment |-> Sighting_Comment,
     Ghost_Comment |-> Ghost_Comment,
     Sighting_Reports_Ghost |-> Sighting_Reports_Ghost,
     Tour_Includes |-> Tour_Includes, Tour_Sign_Up |-> Tour_Sign_Up,
     Ghost_Buster_Fights_Ghost |-> Ghost_Buster_Fights_Ghost]

DbNext ==
    [User |-> User', Ghost_Buster |-> Ghost_Buster', Sighting |-> Sighting',
     Ghost |-> Ghost', Tour |-> Tour', Sighting_Comment |-> Sighting_Comment',
     Ghost_Comment |-> Ghost_Comment',
     Sighting_Reports_Ghost |-> Sighting_Reports_Ghost',
     Tour_Includes |-> Tour_Includes', Tour_Sign_Up |-> Tour_Sign_Up',
     Ghost_Buster_Fights_Ghost |-> Ghost_Buster_Fights_Ghost']

SetTables(db) ==
    /\ User' = db.User
    /\ Ghost_Buster' = db.Ghost_Buster
    /\ Sighting' = db.Sighting
    /\ Ghost' = db.Ghost
    /\ Tour' = db.Tour
    /\ Sighting_Comment' = db.Sighting_Comment
    /\ Ghost_Comment' = db.Ghost_Comment
    /\ Sighting_Reports_Ghost' = db.Sighting_Reports_Ghost
    /\ Tour_Includes' = db.Tour_Includes
    /\ Tour_Sign_Up' = db.Tour_Sign_Up
    /\ Ghost_Buster_Fights_Ghost' = db.Ghost_Buster_Fights_Ghost

Refers(id, T) == id = Null \/ id \in RowIds(T)

ForeignKeysHold(db) ==
    /\ \A r \in db.Ghost_Buster : Refers(r.userID, db.User)
    /\ \A r \in db.Sighting : Refers(r.userReportID, db.User)
    /\ \A r \in db.Sighting_Comment :
            Refers(r.userID, db.User) /\ Refers(r.sightingID, db.Sighting)
    /\ \A r \in db.Ghost_Comment :
            Refers(r.userID, db.User) /\ Refers(r.ghostID, db.Ghost)
    /\ \A r \in db.Sighting_Reports_Ghost :
            Refers(r.sightingID, db.Sighting) /\ Refers(r.ghostID, db.Ghost)
    /\ \A r \in db.Tour_Includes :
            Refers(r.tourID, db.Tour) /\ Refers(r.ghostID, db.Ghost)
    /\ \A r \in db.Tour_Sign_Up :
            Refers(r.userID, db.User) /\ Refers(r.tourID, db.Tour)
    /\ \A r \in db.Ghost_Buster_Fights_Ghost :
            /\ r.userID = Null \/ r.userID \in {b.userID : b \in db.Ghost_Buster}
            /\ Refers(r.ghostID, db.Ghost)

(***************************************************************************)
(* The user-deletion statements of db_init.sql, in file order.  A DELETE   *)
(* that would leave a row referencing a deleted row is rejected by the     *)
(* engine and changes nothing.                                             *)
(***************************************************************************)
SightingsReportedBy(db, u) == {r.id : r \in {x \in db.Sighting : x.userReportID = u}}

NumUserDeleteStatements == 9

UserDeleteStatementKeepingComments(k, db, u) ==
    CASE k = 1 -> [db EXCEPT !.Ghost_Buster_Fights_Ghost = {r \in @ : r.userID # u}]
      [] k = 2 -> [db EXCEPT !.Ghost_Buster = {r \in @ : r.userID # u}]
      [] k = 3 -> [db EXCEPT !.Sighting_Comment = {r \in @ : r.userID # u}]
      [] k = 4 -> [db EXCEPT !.Ghost_Comment = {r \in @ : r.userID # u}]
      [] k = 5 -> [db EXCEPT !.Tour_Sign_Up = {r \in @ : r.userID # u}]
      [] k = 6 -> [db EXCEPT !.Sighting_Reports_Ghost =
                        {r \in @ : r.sightingID \notin SightingsReportedBy(db, u)}]
      [] k = 7 -> db
      [] k = 8 -> [db EXCEPT !.Sighting = {r \in @ : r.userReportID # u}]
      [] k = 9 -> [db EXCEPT !.User = {r \in @ : r.id # u}]

\* The sequence with its first two statements in the other order.
UserDeleteStatementBusterFirst(k, db, u) ==
    CASE k = 1 -> [db EXCEPT !.Ghost_Buster = {r \in @ : r.userID # u}]
      [] k = 2 -> [db EXCEPT !.Ghost_Buster_Fights_Ghost = {r \in @ : r.userID # u}]
      [] k = 3 -> [db EXCEPT !.Sighting_Comment = {r \in @ : r.userID # u}]
      [] k = 4 -> [db EXCEPT !.Ghost_Comment = {r \in @ : r.userID # u}]
      [] k = 5 -> [db EXCEPT !.Tour_Sign_Up = {r \in @ : r.userID # u}]
      [] k = 6 -> [db EXCEPT !.Sighting_Reports_Ghost =
                        {r \in @ : r.sightingID \notin SightingsReportedBy(db, u)}]
      [] k = 7 -> [db EXCEPT !.Sighting_Comment =
                        {r \in @ : r.sightingID \notin SightingsReportedBy(db, u)}]
      [] k = 8 -> [db EXCEPT !.Sighting = {r \in @ : r.userReportID # u}]
      [] k = 9 -> [db EXCEPT !.User = {r \in @ : r.id # u}]

UserDeleteStatement(k, db, u) ==
    CASE k = 1 -> [db EXCEPT !.Ghost_Buster_Fights_Ghost = {r \in @ : r.userID # u}]
      [] k = 2 -> [db EXCEPT !.Ghost_Buster = {r \in @ : r.userID # u}]
      [] k = 3 -> [db EXCEPT !.Sighting_Comment = {r \in @ : r.userID # u}]
      [] k = 4 -> [db EXCEPT !.Ghost_Comment = {r \in @ : r.userID # u}]
      [] k = 5 -> [db EXCEPT !.Tour_Sign_Up = {r \in @ : r.userID # u}]
      [] k = 6 -> [db EXCEPT !.Sighting_Reports_Ghost =
                        {r \in @ : r.sightingID \notin SightingsReportedBy(db, u)}]
      [] k = 7 -> [db EXCEPT !.Sighting_Comment =
                        {r \in @ : r.sightingID \notin SightingsReportedBy(db, u)}]
      [] k = 8 -> [db EXCEPT !.Sighting = {r \in @ : r.userReportID # u}]
      [] k = 9 -> [db EXCEPT !.User = {r \in @ : r.id # u}]

DeleteUser(u) ==
    /\ del.pc \in {"idle", "done"}
    /\ del' = [pc |-> "user", stmt |-> 1, id |-> u, rejected |-> {}]
    /\ UNCHANGED <<store, now, useSqlite, dbClient, boot, req, ui>>

DeleteUserStep ==
    LET after == UserDeleteStatement(del.stmt, Db, del.id)
        accepted == ForeignKeysHold(after)
    IN  /\ del.pc = "user"
        /\ IF accepted THEN SetTables(after) ELSE UNCHANGED tables
        /\ del' = [del EXCEPT
                !.pc = IF del.stmt = NumUserDeleteStatements THEN "done" ELSE "user",
                !.stmt = IF del.stmt = NumUserDeleteStatements THEN 0 ELSE @ + 1,
                !.rejected = IF accepted THEN @ ELSE @ \cup {del.stmt}]
        /\ UNCHANGED <<autoInc, schema, now, useSqlite, dbClient, boot, req, ui>>

(***************************************************************************)
(* The ghost-deletion statements of db_init.sql, in file order.            *)
(***************************************************************************)
NumGhostDeleteStatements == 5

GhostDeleteStatementKeepingFights(k, db, g) ==
    CASE k = 1 -> [db EXCEPT !.Sighting_Reports_Ghost = {r \in @ : r.ghostID # g}]
      [] k = 2 -> [db EXCEPT !.Ghost_Comment = {r \in @ : r.ghostID # g}]
      [] k = 3 -> [db EXCEPT !.Tour_Includes = {r \in @ : r.ghostID # g}]
      [] k = 4 -> db
      [] k = 5 -> [db EXCEPT !.Ghost = {r \in @ : r.id # g}]

GhostDeleteStatement(k, db, g) ==
    CASE k = 1 -> [db EXCEPT !.Sighting_Reports_Ghost = {r \in @ : r.ghostID # g}]
      [] k = 2 -> [db EXCEPT !.Ghost_Comment = {r \in @ : r.ghostID # g}]
      [] k = 3 -> [db EXCEPT !.Tour_Includes = {r \in @ : r.ghostID # g}]
      [] k = 4 -> [db EXCEPT !.Ghost_Buster_Fights_Ghost = {r \in @ : r.ghostID # g}]
      [] k = 5 -> [db EXCEPT !.Ghost = {r \in @ : r.id # g}]

DeleteGhost(g) ==
    /\ del.pc \in {"idle", "done"}
    /\ del' = [pc |-> "ghost", stmt |-> 1, id |-> g, rejected |-> {}]
    /\ UNCHANGED <<store, now, useSqlite, dbClient, boot, req, ui>>

DeleteGhostStep ==
    LET after == GhostDeleteStatement(del.stmt, Db, del.id)
        accepted == ForeignKeysHold(after)
    IN  /\ del.pc = "ghost"
        /\ IF accepted THEN SetTables(after) ELSE UNCHANGED tables
        /\ del' = [del EXCEPT
                !.pc = IF del.stmt = NumGhostDeleteStatements THEN "done" ELSE "ghost",
                !.stmt = IF del.stmt = NumGhostDeleteStatements THEN 0 ELSE @ + 1,
                !.rejected = IF accepted THEN @ ELSE @ \cup {del.stmt}]
        /\ UNCHANGED <<autoInc, schema, now, useSqlite, dbClient, boot, req, ui>>

(***************************************************************************)
(* Every store over the model's ids that satisfies the foreign keys and    *)
(* holds at most MaxRows rows besides its users, ghosts and tour.          *)
(***************************************************************************)
MaxRows == 5
MaxSightings == 2

SightingRow(id, u) ==
    [id |-> id, visibility |-> 5, time |-> 0, userReportID |-> u, description |-> <<"d1">>]
Within(S, n) == {T \in SUBSET S : Cardinality(T) <= n}

InitDelete ==
    /\ User = {[id |-> u, username |-> UsernameOf(u), email |-> EmailOf(u)] : u \in UserIds}
    /\ Ghost = {[id |-> g, name |-> <<GhostNames[g]>>, visibility |-> 3] : g \in GhostIds}
    /\ Tour = {[id |-> 1, startTime |-> 1, endTime |-> 2]}
    /\ Tour_Includes = {[tourID |-> 1, ghostID |-> 1]}
    /\ \E reporter \in [1..MaxSightings -> 0..NumUsers] :
            Sighting = {SightingRow(id, reporter[id]) :
                            id \in {i \in 1..MaxSightings : reporter[i] # 0}}
    /\ Sighting_Reports_Ghost \in
            Within({[sightingID |-> sid, ghostID |-> g] :
                        sid \in RowIds(Sighting), g \in GhostIds},
                   MaxRows - Cardinality(Sighting))
    /\ Sighting_Comment \in
            Within({[userID |-> u, sightingID |-> sid, reportTime |-> 0,
                     description |-> <<"d1">>] : u \in UserIds, sid \in RowIds(Sighting)},
                   MaxRows - Cardinality(Sighting) - Cardinality(Sighting_Reports_Ghost))
    /\ Ghost_Buster \in
            Within({[userID |-> u, ghosts_busted |-> 0, alias |-> NullText] : u \in UserIds},
                   MaxRows - Cardinality(Sighting) - Cardinality(Sighting_Reports_Ghost)
                           - Cardinality(Sighting_Comment))
    /\ Ghost_Buster_Fights_Ghost \in
            Within({[userID |-> b.userID, ghostID |-> g] : b \in Ghost_Buster, g \in GhostIds},
                   MaxRows - Cardinality(Sighting) - Cardinality(Sighting_Reports_Ghost)
                           - Cardinality(Sighting_Comment) - Cardinality(Ghost_Buster))
    /\ Ghost_Comment \in
            Within({[userID |-> u, ghostID |-> g, reportTime |-> 0,
                     description |-> <<"d1">>] : u \in UserIds, g \in GhostIds},
                   MaxRows - Cardinality(Sighting) - Cardinality(Sighting_Reports_Ghost)
                           - Cardinality(Sighting_Comment) - Cardinality(Ghost_Buster)
                           - Cardinality(Ghost_Buster_Fights_Ghost))
    /\ Tour_Sign_Up \in
            Within({[userID |-> u, tourID |-> 1] : u \in UserIds},
                   MaxRows - Cardinality(Sighting) - Cardinality(Sighting_Reports_Ghost)
                           - Cardinality(Sighting_Comment) - Cardinality(Ghost_Buster)
                           - Cardinality(Ghost_Buster_Fights_Ghost)
                           - Cardinality(Ghost_Comment))
    /\ autoInc = [User |-> NumUsers, Sighting |-> MaxSightings, Ghost |-> NumGhosts,
                  Tour |-> 1]
    /\ schema = AllTables
    /\ InitProcesses

NextDelete ==
    \/ \E u \in UserIds : DeleteUser(u)
    \/ DeleteUserStep

SpecDelete == InitDelete /\ [][NextDelete]_vars

\* Ghosts, also ones that do not exist, deleted one after the other.
NextDeleteGhost ==
    \/ \E g \in 1..NumGhosts + 1 : DeleteGhost(g)
    \/ DeleteGhostStep

SpecDeleteGhost == InitDelete /\ [][NextDeleteGhost]_vars

(***************************************************************************)
(* db_init.sql as the bootstrap sees it: the file split at each ";" that   *)
(* ends a line.  A section header ("---- Populate Tables ----") stays at   *)
(* the front of the statement that follows it: header marks these.  rows   *)
(* are the rows of an INSERT (without their generated id); params marks    *)
(* a statement with "?" placeholders, which the bootstrap runs unbound.    *)
(***************************************************************************)
References ==
    [User |-> {}, Ghost_Buster |-> {"User"}, Sighting |-> {"User"}, Ghost |-> {},
     Tour |-> {}, Sighting_Comment |-> {"User", "Sighting"},
     Ghost_Comment |-> {"User", "Ghost"},
     Sighting_Reports_Ghost |-> {"Sighting", "Ghost"},
     Tour_Includes |-> {"Tour", "Ghost"}, Tour_Sign_Up |-> {"User", "Tour"},
     Ghost_Buster_Fights_Ghost |-> {"Ghost_Buster", "Ghost"}]

AutoIncrement == {"User", "Sighting", "Ghost", "Tour"}

KeyOf(table, r) ==
    CASE table \in AutoIncrement -> <<r.id>>
      [] table = "Ghost_Buster" -> <<r.userID>>
      [] table = "Sighting_Comment" -> <<r.userID, r.sightingID>>
      [] table = "Ghost_Comment" -> <<r.userID, r.ghostID>>
      [] table = "Sighting_Reports_Ghost" -> <<r.sightingID, r.ghostID>>
      [] table = "Tour_Includes" -> <<r.tourID, r.ghostID>>
      [] table = "Tour_Sign_Up" -> <<r.userID, r.tourID>>
      [] table = "Ghost_Buster_Fights_Ghost" -> <<r.userID, r.ghostID>>

Create(table, header) ==
    [kind |-> "create", table |-> table, header |-> header, rows |-> << >>,
     params |-> FALSE]
Insert(table, header, rows) ==
    [kind |-> "insert", table |-> table, header |-> header, rows |-> rows,
     params |-> FALSE]
InsertParams(table, header, rows) ==
    [kind |-> "insert", table |-> table, header |-> header, rows |-> rows,
     params |-> TRUE]
Update(table, header) ==
    [kind |-> "update", table |-> table, header |-> header, rows |-> << >>,
     params |-> TRUE]
Delete(table, header) ==
    [kind |-> "delete", table |-> table, header |-> header, rows |-> << >>,
     params |-> TRUE]
Unsupported(kind, table, header) ==
    [kind |-> kind, table |-> table, header |-> header, rows |-> << >>,
     params |-> FALSE]

Pairs(a, b, ps) == [i \in 1..Len(ps) |-> (a :> ps[i][1]) @@ (b :> ps[i][2])]

SeedUser == [i \in 1..5 |-> [username |-> UsernameOf(i), email |-> EmailOf(i)]]
SeedGhostBuster ==
    <<[userID |-> 1, ghosts_busted |-> 47, alias |-> <<"The Specter Detector">>],
      [userID |-> 3, ghosts_busted |-> 23, alias |-> <<"Ectoplasm Expert">>],
      [userID |-> 4, ghosts_busted |-> 89, alias |-> <<"Phantom Finder">>]>>
SeedSighting ==
    <<[visibility |-> 8, time |-> 10312345, userReportID |-> 1, description |-> NullText],
      [visibility |-> 5, time |-> 11010230, userReportID |-> 2, description |-> NullText],
      [visibility |-> 9, time |-> 11020015, userReportID |-> 3, description |-> NullText],
      [visibility |-> 3, time |-> 11030320, userReportID |-> 4, description |-> NullText],
      [visibility |-> 7, time |-> 11040100, userReportID |-> 5, description |-> NullText]>>
SeedGhost ==
    <<[name |-> <<GhostNames[1]>>, visibility |-> 3],
      [name |-> <<GhostNames[2]>>, visibility |-> 4],
      [name |-> <<GhostNames[3]>>, visibility |-> 2],
      [name |-> <<GhostNames[4]>>, visibility |-> 3],
      [name |-> <<GhostNames[5]>>, visibility |-> 5]>>
SeedTour ==
    <<[startTime |-> 11151900, endTime |-> 11152200],
      [startTime |-> 11162000, endTime |-> 11162300],
      [startTime |-> 11171830, endTime |-> 11172130],
      [startTime |-> 11221930, endTime |-> 11222230]>>
SeedSightingComment ==
    <<[userID |-> 2, sightingID |-> 1, reportTime |-> 11011000,
       description |-> <<"I saw the same thing in that area last week!">>],
      [userID |-> 3, sightingID |-> 1, reportTime |-> 11011230,
       description |-> <<"The temperature dropped significantly">>],
      [userID |-> 1, sightingID |-> 2, reportTime |-> 11011500,
       description |-> <<"Classic apparition behavior.">>],
      [userID |-> 4, sightingID |-> 3, reportTime |-> 11020900,
       description |-> <<"I captured some EVP recordings">>],
      [userID |-> 5, sightingID |-> 4, reportTime |-> 11031100,
       description |-> <<"This matches historical records">>]>>
SeedGhostComment ==
    <<[userID |-> 1, ghostID |-> 1, reportTime |-> 10251400,
       description |-> <<"Encountered this entity three times.">>],
      [userID |-> 2, ghostID |-> 2, reportTime |-> 10261630,
       description |-> <<"Lady Grey is a peaceful spirit.">>],
      [userID |-> 3, ghostID |-> 3, reportTime |-> 10271100,
       description |-> <<"The Dark Watcher appears most frequently between 2-4 AM.">>],
      [userID |-> 4, ghostID |-> 4, reportTime |-> 10281345,
       description |-> <<"Heard the weeping near the old harbor.">>],
      [userID |-> 5, ghostID |-> 5, reportTime |-> 10291000,
       description |-> <<"Historical records confirm sightings">>]>>
SeedSightingReportsGhost ==
    Pairs("sightingID", "ghostID",
          <<<<1, 1>>, <<1, 3>>, <<2, 2>>, <<3, 3>>, <<4, 4>>, <<5, 5>>>>)
SeedTourIncludes ==
    Pairs("tourID", "ghostID",
          <<<<1, 1>>, <<1, 2>>, <<1, 3>>, <<2, 4>>, <<2, 2>>, <<3, 3>>, <<3, 5>>,
            <<4, 1>>, <<4, 2>>>>)
SeedTourSignUp ==
    Pairs("userID", "tourID",
          <<<<1, 1>>, <<2, 1>>, <<2, 2>>, <<3, 3>>, <<4, 2>>, <<4, 4>>, <<5, 1>>,
            <<5, 3>>, <<5, 4>>>>)
SeedFights ==
    Pairs("userID", "ghostID",
          <<<<1, 1>>, <<1, 3>>, <<1, 5>>, <<3, 2>>, <<3, 4>>, <<4, 1>>, <<4, 2>>,
            <<4, 3>>, <<4, 5>>>>)

Statements ==
    << \* ---- Create Tables ----
       Create("User", TRUE), Create("Ghost_Buster", FALSE), Create("Sighting", FALSE),
       Create("Ghost", FALSE), Create("Tour", FALSE), Create("Sighting_Comment", FALSE),
       Create("Ghost_Comment", FALSE), Create("Sighting_Reports_Ghost", FALSE),
       Create("Tour_Includes", FALSE), Create("Tour_Sign_Up", FALSE),
       Create("Ghost_Buster_Fights_Ghost", FALSE),
       \* ---- Populate Tables ----
       Insert("User", TRUE, SeedUser), Insert("Ghost_Buster", FALSE, SeedGhostBuster),
       Insert("Sighting", FALSE, SeedSighting), Insert("Ghost", FALSE, SeedGhost),
       Insert("Tour", FALSE, SeedTour),
       Insert("Sighting_Comment", FALSE, SeedSightingComment),
       Insert("Ghost_Comment", FALSE, SeedGhostComment),
       Insert("Sighting_Reports_Ghost", FALSE, SeedSightingReportsGhost),
       Insert("Tour_Includes", FALSE, SeedTourIncludes),
       Insert("Tour_Sign_Up", FALSE, SeedTourSignUp),
       Insert("Ghost_Buster_Fights_Ghost", FALSE, SeedFights),
       \* ---- User Input into Database ----
       InsertParams("Sighting", TRUE,
            <<[visibility |-> Null, time |-> Null, userReportID |-> Null,
               description |-> NullText]>>),
       InsertParams("Sighting_Reports_Ghost", FALSE, << >>),   \* newSightingID
       InsertParams("Sighting_Comment", FALSE, << >>),         \* NOW()
       InsertParams("Ghost_Comment", FALSE, << >>),            \* NOW()
       InsertParams("Tour", FALSE, <<[startTime |-> Null, endTime |-> Null]>>),
       InsertParams("Tour_Includes", FALSE, << >>),            \* newTourID
       InsertParams("Tour_Sign_Up", FALSE, <<[userID |-> Null, tourID |-> Null]>>),
       InsertParams("Ghost", FALSE, <<[name |-> NullText, visibility |-> Null]>>),
       \* ---- Update Tables ----
       Update("User", TRUE), Update("Ghost_Buster", FALSE), Update("Sighting", FALSE),
       Update("Ghost", FALSE), Update("Tour", FALSE), Update("Sighting_Comment", FALSE),
       Update("Ghost_Comment", FALSE),
       \* ---- Delete from Tables ----
       Delete("Ghost_Buster_Fights_Ghost", TRUE), Delete("Ghost_Buster", FALSE),
       Delete("Sighting_Comment", FALSE), Delete("Ghost_Comment", FALSE),
       Delete("Tour_Sign_Up", FALSE), Delete("Sighting_Reports_Ghost", FALSE),
       Delete("Sighting_Comment", FALSE), Delete("Sighting", FALSE),
       Delete("User", FALSE),
       Delete("Sighting_Reports_Ghost", FALSE), Delete("Ghost_Comment", FALSE),
       Delete("Tour_Includes", FALSE), Delete("Ghost_Buster_Fights_Ghost", FALSE),
       Delete("Ghost", FALSE),
       Delete("Sighting_Comment", FALSE), Delete("Sighting_Reports_Ghost", FALSE),
       Delete("Sighting", FALSE),
       Delete("Tour_Sign_Up", FALSE), Delete("Tour_Includes", FALSE),
       Delete("Tour", FALSE),
       Delete("Ghost_Buster_Fights_Ghost", FALSE), Delete("Ghost_Buster", FALSE),
       \* ---- Advanced Commands ----
       Unsupported("alter", "Tour", TRUE),                     \* ADD CONSTRAINT checkTime
       Unsupported("trigger", "Ghost_Buster_Fights_Ghost", FALSE), \* DELIMITER $$ CREATE TRIGGER
       Unsupported("trigger", "Ghost_Buster_Fights_Ghost", FALSE)  \* END $$ DELIMITER
    >>

\* /^CREATE\s+TABLE/i.test(stmt)
IsCreateTable(k) == Statements[k].kind = "create" /\ ~Statements[k].header

(***************************************************************************)
(* One statement run by an engine.  The result says whether the engine     *)
(* accepted it and gives the store after it.                               *)
(***************************************************************************)
Rejected == [ok |-> FALSE, db |-> Db, autoInc |-> autoInc, schema |-> schema]

NoNull(key) == \A i \in 1..Len(key) : key[i] # Null

InsertInto(table, rows) ==
    LET base == IF table \in AutoIncrement THEN autoInc[table] ELSE 0
        new == [i \in 1..Len(rows) |->
                    IF table \in AutoIncrement
                    THEN ("id" :> (base + i)) @@ rows[i]
                    ELSE rows[i]]
        added == {new[i] : i \in 1..Len(rows)}
        after == [Db EXCEPT ![table] = @ \cup added]
        clash == \/ \E i \in 1..Len(rows), r \in Db[table] :
                        KeyOf(table, new[i]) = KeyOf(table, r) /\ NoNull(KeyOf(table, r))
                 \/ \E i, j \in 1..Len(rows) :
                        /\ i # j
                        /\ KeyOf(table, new[i]) = KeyOf(table, new[j])
                        /\ NoNull(KeyOf(table, new[i]))
    IN  IF table \notin schema \/ clash \/ ~ForeignKeysHold(after)
        THEN Rejected
        ELSE [ok |-> TRUE, db |-> after,
              autoInc |-> IF table \in AutoIncrement
                          THEN [autoInc EXCEPT ![table] = base + Len(rows)]
                          ELSE autoInc,
              schema |-> schema]

\* node-sqlite3 after transformSqlForSqlite: "--" starts a comment, CREATE TABLE
\* is IF NOT EXISTS, an unbound "?" is NULL.
SqliteRun(st) ==
    CASE st.kind = "create" ->
            [ok |-> TRUE, db |-> Db, autoInc |-> autoInc,
             schema |-> schema \cup {st.table}]
      [] st.kind = "insert" ->
            IF st.rows = << >> THEN Rejected ELSE InsertInto(st.table, st.rows)
      [] st.kind \in {"update", "delete"} ->
            IF st.table \in schema
            THEN [ok |-> TRUE, db |-> Db, autoInc |-> autoInc, schema |-> schema]
            ELSE Rejected
      [] OTHER -> Rejected

\* mysql2 promiseConn.query(stmt): "----" is no comment, a "?" without values
\* is a syntax error, CREATE TABLE needs the referenced tables.
MysqlQuery(st) ==
    IF st.header \/ st.params
    THEN Rejected
    ELSE CASE st.kind = "create" ->
                IF st.table \in schema \/ ~(References[st.table] \subseteq schema)
                THEN Rejected
                ELSE [ok |-> TRUE, db |-> Db, autoInc |-> autoInc,
                      schema |-> schema \cup {st.table}]
           [] st.kind = "insert" -> InsertInto(st.table, st.rows)
           [] st.kind = "alter" ->
                [ok |-> TRUE, db |-> Db, autoInc |-> autoInc,
                 schema |-> schema \cup {"checkTime"}]
           [] OTHER -> Rejected

Execute(k) == IF useSqlite THEN SqliteRun(Statements[k]) ELSE MysqlQuery(Statements[k])

Apply(result) ==
    /\ SetTables(result.db)
    /\ autoInc' = result.autoInc
    /\ schema' = result.schema

(***************************************************************************)
(* initSqlite / initMysql.  boot.stmt is the loop's position in the        *)
(* statement list; the loop runs on to its next awaited statement.         *)
(***************************************************************************)
MaxStarts == 2

NextCreate(from) == {k \in from..Len(Statements) : IsCreateTable(k)}
NextSeed(from) == {k \in from..Len(Statements) : ~IsCreateTable(k)}
Min(S) == CHOOSE k \in S : \A j \in S : k <= j
EngineType == IF useSqlite THEN "sqlite" ELSE "mysql"

\* await run('PRAGMA foreign_keys = ON;') / CREATE DATABASE IF NOT EXISTS, USE
BootOpen ==
    /\ boot.pc = "start"
    /\ boot' = [boot EXCEPT !.pc = "create", !.stmt = 1]
    /\ UNCHANGED <<store, now, useSqlite, dbClient, req, del, ui>>

BootCreateTable ==
    /\ boot.pc = "create"
    /\ NextCreate(boot.stmt) # {}
    /\ LET k == Min(NextCreate(boot.stmt))
       IN  /\ Apply(Execute(k))
           /\ boot' = [boot EXCEPT !.stmt = k + 1]
    /\ UNCHANGED <<now, useSqlite, dbClient, req, del, ui>>

\* if (userCount === 0)
SeedWanted(count) == count = 0

\* SELECT COUNT(*) FROM User.  SQLite: a failure counts as 0.  MySQL: a failure
\* leaves the try block, past the seeding, to the dbClient assignment.
BootCount ==
    /\ boot.pc = "create"
    /\ NextCreate(boot.stmt) = {}
    /\ LET failed == "User" \notin schema
           count == IF failed THEN 0 ELSE Cardinality(User)
           seeds == SeedWanted(count) /\ (useSqlite \/ ~failed)
       IN  /\ boot' = [boot EXCEPT !.pc = IF seeds THEN "seed" ELSE "done",
                                   !.stmt = 1, !.userCount = count]
           /\ dbClient' = IF seeds THEN dbClient ELSE EngineType
    /\ UNCHANGED <<store, now, useSqlite, req, del, ui>>

\* A seeding loop that ends at the first statement an engine rejects.
BootSeedStoppingAtFailure ==
    /\ boot.pc = "seed"
    /\ LET k == Min(NextSeed(boot.stmt))
           last == NextSeed(k + 1) = {} \/ ~Execute(k).ok
       IN  /\ Apply(Execute(k))
           /\ boot' = [boot EXCEPT !.pc = IF last THEN "done" ELSE "seed",
                                   !.stmt = k + 1]
           /\ dbClient' = IF last THEN EngineType ELSE dbClient
    /\ UNCHANGED <<now, useSqlite, req, del, ui>>

BootSeed ==
    /\ boot.pc = "seed"
    /\ LET k == Min(NextSeed(boot.stmt))
           last == NextSeed(k + 1) = {}
       IN  /\ Apply(Execute(k))
           /\ boot' = [boot EXCEPT !.pc = IF last THEN "done" ELSE "seed",
                                   !.stmt = k + 1]
           /\ dbClient' = IF last THEN EngineType ELSE dbClient
    /\ UNCHANGED <<now, useSqlite, req, del, ui>>

\* The process ends and is started again against the same store.
Restart ==
    /\ boot.run < MaxStarts
    /\ del.pc # "user"
    /\ boot' = [pc |-> "start", stmt |-> 0, userCount |-> 0, run |-> boot.run + 1]
    /\ dbClient' = "null"
    /\ req' = [s \in Slots |-> Idle]
    /\ UNCHANGED <<store, now, useSqlite, del, ui>>

(***************************************************************************)
(* The first start against a new database (no table yet) or against a      *)
(* database whose empty tables were already created.                       *)
(***************************************************************************)
InitBoot ==
    /\ User = {} /\ Ghost_Buster = {} /\ Sighting = {} /\ Ghost = {} /\ Tour = {}
    /\ Sighting_Comment = {} /\ Ghost_Comment = {} /\ Sighting_Reports_Ghost = {}
    /\ Tour_Includes = {} /\ Tour_Sign_Up = {} /\ Ghost_Buster_Fights_Ghost = {}
    /\ autoInc = [User |-> 0, Sighting |-> 0, Ghost |-> 0, Tour |-> 0]
    /\ schema \in {{}, AllTables}
    /\ now = 0
    /\ useSqlite \in BOOLEAN
    /\ dbClient = "null"
    /\ boot = [pc |-> "start", stmt |-> 0, userCount |-> 0, run |-> 1]
    /\ req = [s \in Slots |-> Idle]
    /\ del = [pc |-> "idle", stmt |-> 0, id |-> 0, rejected |-> {}]
    /\ ui = Closed

\* Starts of the server, and users deleted with the statements of db_init.sql
\* while it is up; it is not stopped in the middle of a deletion.
NextBoot ==
    \/ BootOpen
    \/ BootCreateTable
    \/ BootCount
    \/ BootSeed
    \/ Restart
    \/ Ready /\ \E u \in RowIds(User) : DeleteUser(u)
    \/ Ready /\ DeleteUserStep

SpecBoot == InitBoot /\ [][NextBoot]_vars

\* The bootstrap is one async function: every awaited statement settles and
\* the function runs on, so a bootstrap step that stays possible is taken.
Bootstrap == BootOpen \/ BootCreateTable \/ BootCount \/ BootSeed

SpecBootFair == InitBoot /\ [][NextBoot]_vars /\ WF_vars(Bootstrap)

(***************************************************************************)
(* Properties of the comment posts.                                        *)
(***************************************************************************)
SightingCommentsOf(T, u, sid) == {r \in T : r.userID = u /\ r.sightingID = sid}
GhostCommentsOf(T, u, g) == {r \in T : r.userID = u /\ r.ghostID = g}
OneRowSaying(rows, d) == Cardinality(rows) = 1 /\ \A r \in rows : r.description = d

SightingCommentWrites(s, u, sid) ==
    /\ req[s].op = "POST sighting comment" /\ req[s].pc = "write"
    /\ req'[s].pc = "done"
    /\ req[s].userID = u /\ req[s].sightingId = sid

GhostCommentWrites(s, u, g) ==
    /\ req[s].op = "POST ghost comment" /\ req[s].pc = "write"
    /\ req'[s].pc = "done"
    /\ req[s].userID = u /\ req[s].ghostId = g

C1_Step ==
    /\ \A u \in RowIds(User), sid \in RowIds(Sighting) :
         /\ \A s \in Slots : SightingCommentWrites(s, u, sid) =>
                OneRowSaying(SightingCommentsOf(Sighting_Comment', u, sid),
                             req[s].description)
         /\ \/ SightingCommentsOf(Sighting_Comment', u, sid)
                    = SightingCommentsOf(Sighting_Comment, u, sid)
            \/ \E s \in Slots : SightingCommentWrites(s, u, sid)
    /\ \A u \in RowIds(User), g \in RowIds(Ghost) :
         /\ \A s \in Slots : GhostCommentWrites(s, u, g) =>
                OneRowSaying(GhostCommentsOf(Ghost_Comment', u, g), req[s].description)
         /\ \/ GhostCommentsOf(Ghost_Comment', u, g) = GhostCommentsOf(Ghost_Comment, u, g)
            \/ \E s \in Slots : GhostCommentWrites(s, u, g)
    /\ \A r \in Sighting_Comment' :
            r.userID \in RowIds(User) /\ r.sightingID \in RowIds(Sighting)
    /\ \A r \in Ghost_Comment' : r.userID \in RowIds(User) /\ r.ghostID \in RowIds(Ghost)

\* C1: in a sequence of comment posts, the write of a post by an existing user
\* on an existing sighting or ghost leaves exactly one row for the (user, target)
\* pair and that row carries the post's description; the rows of a pair change
\* in no other step, so the row always carries the most recent post's text.
C1_OneRowWithLatestDescription == [][C1_Step]_vars

\* A second post for a pair has been answered "Comment updated" and the pair's
\* single row carries its description and the time of the update.
C1_Witness ==
    /\ req[1].op = "POST sighting comment" /\ req[1].pc = "done" /\ req[1].status = 200
    /\ \E r \in Sighting_Comment :
            /\ r.userID = req[1].body.userID
            /\ r.description = req[1].body.description
            /\ r.description = <<"d2">>
            /\ r.reportTime = 1

CommentPostAnswers(s) ==
    /\ req[s].op \in {"POST sighting comment", "POST ghost comment"}
    /\ req[s].pc \in {"wait", "write"}
    /\ req'[s].pc = "done"

Present(s) == req[s].userID # 0 /\ Truthy(req[s].description)

PairRows(s) ==
    IF req[s].op = "POST sighting comment"
    THEN SightingCommentsOf(Sighting_Comment, req[s].userID, req[s].sightingId)
    ELSE GhostCommentsOf(Ghost_Comment, req[s].userID, req[s].ghostId)

PairExists(s) ==
    /\ req[s].userID \in RowIds(User)
    /\ IF req[s].op = "POST sighting comment"
       THEN req[s].sightingId \in RowIds(Sighting)
       ELSE req[s].ghostId \in RowIds(Ghost)

CreatedOrUpdated(s) ==
    /\ req'[s].status = 201 <=> PairRows(s) = {}
    /\ (req'[s].status = 200 /\ req'[s].body.message = "Comment updated")
            <=> PairRows(s) # {}

Refused(s, status) ==
    /\ req'[s].status = status
    /\ UNCHANGED <<Sighting_Comment, Ghost_Comment>>

C16_OriginalStep ==
    CommentPostAnswers(1) =>
        IF Present(1) THEN CreatedOrUpdated(1) ELSE Refused(1, 400)

\* C16 as stated: a comment post with user id and description present is
\* answered 201 exactly when the pair had no row and 200 Comment updated
\* exactly when it had one; a post without user id or description is answered
\* 400 and leaves the comment tables unchanged.
C16_CreatedIffNoRow == [][C16_OriginalStep]_vars

C16_Step ==
    CommentPostAnswers(1) =>
        IF ~Present(1) THEN Refused(1, 400)
        ELSE IF PairExists(1) THEN CreatedOrUpdated(1)
        ELSE Refused(1, 500)

\* C16 amended: with one request at a time, a comment post with user id and
\* description present whose user and target exist is answered 201 exactly
\* when the pair had no row and 200 Comment updated exactly when it had one;
\* when the user or the target does not exist it is answered 500 and the
\* comment tables are unchanged; without user id or description it is
\* answered 400 and the comment tables are unchanged.
C16_CreatedIffNoRowOfExistingPair == [][C16_Step]_vars

\* A second post of a user on a ghost has been answered 200 Comment updated.
C16_Witness ==
    /\ req[1].op = "POST ghost comment" /\ req[1].pc = "done" /\ req[1].status = 200
    /\ req[1].body.message = "Comment updated"
    /\ \E r \in Ghost_Comment : r.userID = req[1].body.userID

(***************************************************************************)
(* Properties of the tour membership.                                      *)
(***************************************************************************)
JoinAnswers(s) ==
    /\ req[s].op = "POST join" /\ req[s].pc \in {"wait", "insert"}
    /\ req'[s].pc = "done"
    /\ req[s].userID \in RowIds(User) /\ req[s].tourId \in RowIds(Tour)

C2_Step ==
    \A s \in Slots : JoinAnswers(s) =>
        LET row == [userID |-> req[s].userID, tourID |-> req[s].tourId]
        IN  /\ row \in Tour_Sign_Up'
            /\ IF row \in Tour_Sign_Up
               THEN /\ req'[s].status = 200
                    /\ req'[s].body = [message |-> "already_signed_up"]
                    /\ UNCHANGED store
               ELSE /\ req'[s].status = 201
                    /\ Tour_Sign_Up' = Tour_Sign_Up \cup {row}

\* C2: with one request at a time, a join for a (user, tour) pair that has no
\* membership row inserts the row and answers 201; a join for a pair that has
\* its row answers 200 already_signed_up and leaves the store unchanged; either
\* way the pair has its one row afterwards.
C2_JoinTwiceOneRow == [][C2_Step]_vars

\* The second join of a pair has been answered 200 already_signed_up.
C2_Witness ==
    /\ req[1].op = "POST join" /\ req[1].pc = "done" /\ req[1].status = 200
    /\ req[1].body.message = "already_signed_up"
    /\ [userID |-> 1, tourID |-> 1] \in Tour_Sign_Up

C15_Step ==
    /\ req[1].op = "DELETE leave" /\ req[1].pc = "wait" /\ req'[1].pc = "done"
    /\ req[1].userID # 0
    => LET row == [userID |-> req[1].userID, tourID |-> req[1].tourId]
       IN  /\ req'[1].status = 200
           /\ req'[1].body = [message |-> "left_tour"]
           /\ IF row \in Tour_Sign_Up
              THEN /\ Tour_Sign_Up' = Tour_Sign_Up \ {row}
                   /\ UNCHANGED <<User, Ghost_Buster, Sighting, Ghost, Tour,
                                  Sighting_Comment, Ghost_Comment,
                                  Sighting_Reports_Ghost, Tour_Includes,
                                  Ghost_Buster_Fights_Ghost, autoInc, schema>>
              ELSE UNCHANGED store

\* C15: a leave request with a user id is answered 200 left_tour; without a
\* membership row for (user, tour) the store is unchanged, with one exactly
\* that row is removed and no other row of any table.
C15_LeaveRemovesOnlyItsRow == [][C15_Step]_vars

\* The handler of a leave request of user 1 is at its DELETE while user 1 and
\* user 2 both have their membership row of the tour.
C15_Witness ==
    /\ req[1].op = "DELETE leave" /\ req[1].pc = "wait"
    /\ req[1].userID = 1 /\ req[1].tourId = 1
    /\ Tour_Sign_Up = {[userID |-> 1, tourID |-> 1], [userID |-> 2, tourID |-> 1]}

(***************************************************************************)
(* Properties of the user deletion.                                        *)
(***************************************************************************)
\* The rows of each table that reference user u or a Sighting reported by u.
ReferencingUser(db, u) ==
    [User |-> {r \in db.User : r.id = u},
     Ghost_Buster |-> {r \in db.Ghost_Buster : r.userID = u},
     Sighting |-> {r \in db.Sighting : r.userReportID = u},
     Ghost |-> {},
     Tour |-> {},
     Sighting_Comment |-> {r \in db.Sighting_Comment :
            r.userID = u \/ r.sightingID \in SightingsReportedBy(db, u)},
     Ghost_Comment |-> {r \in db.Ghost_Comment : r.userID = u},
     Sighting_Reports_Ghost |-> {r \in db.Sighting_Reports_Ghost :
            r.sightingID \in SightingsReportedBy(db, u)},
     Tour_Includes |-> {},
     Tour_Sign_Up |-> {r \in db.Tour_Sign_Up : r.userID = u},
     Ghost_Buster_Fights_Ghost |-> {r \in db.Ghost_Buster_Fights_Ghost : r.userID = u}]

C3_Step ==
    del.pc = "user" =>
        /\ \A n \in AllTables :
            /\ DbNext[n] \subseteq Db[n]
            /\ Db[n] \ DbNext[n] \subseteq ReferencingUser(Db, del.id)[n]
        /\ del'.pc = "done" =>
            /\ \A n \in AllTables : ReferencingUser(DbNext, del.id)[n] = {}
            /\ ForeignKeysHold(DbNext)

\* C3: from a store that satisfies the foreign keys, every statement of the
\* user-deletion sequence removes only rows that reference the user or one of
\* the user's Sightings and changes no other row, and when the last statement
\* has run no table holds a row that references the user or a Sighting the user
\* reported (no row is left dangling).
C3_UserDeletionLeavesNoOrphan == [][C3_Step]_vars

\* The sequence has run to its end for user 1, and rows of user 2 remain.
C3_Witness ==
    /\ del.pc = "done" /\ del.id = 1
    /\ RowIds(User) = {2}
    /\ Sighting # {} /\ Sighting_Comment # {} /\ Ghost_Buster # {} /\ Tour_Sign_Up # {}
(***************************************************************************)
(* C4: starting the system any number of times against the same store      *)
(* inserts each seed row at most once: no table holds two rows that are    *)
(* the same row of "Populate Tables" (a bootstrap run against a store that *)
(* already holds rows adds none).  The code seeds whenever the User table  *)
(* is empty, whatever the other tables hold.                               *)
(***************************************************************************)
Copies(T, row) == {r \in T : \A f \in DOMAIN row : r[f] = row[f]}
AtMostOnce(T, seed) == \A i \in 1..Len(seed) : Cardinality(Copies(T, seed[i])) <= 1

C4_SeedRowsAtMostOnce ==
    /\ AtMostOnce(User, SeedUser)
    /\ AtMostOnce(Sighting, SeedSighting)
    /\ AtMostOnce(Ghost, SeedGhost)
    /\ AtMostOnce(Tour, SeedTour)

(***************************************************************************)
(* C5: with one register request at a time and username, email and         *)
(* password present, the request answers 201 with the generated id and     *)
(* inserts exactly one User row when no User has that username or that     *)
(* email, and answers 409 username_or_email_taken and inserts no row when  *)
(* one has.                                                                *)
(***************************************************************************)
Registers(s) == req[s].op = "POST register" /\ req[s].pc # "done"
Complete(s) ==
    Truthy(req[s].username) /\ Truthy(req[s].email) /\ Truthy(req[s].password)
Taken(s) ==
    \E r \in User : r.username = req[s].username \/ r.email = req[s].email

C5_Step ==
    \A s \in Slots :
        Registers(s) /\ Complete(s) =>
            IF req'[s].pc # "done"
            THEN User' = User
            ELSE IF Taken(s)
                 THEN /\ req'[s].status = 409
                      /\ req'[s].body = Error("username_or_email_taken")
                      /\ User' = User
                 ELSE /\ req'[s].status = 201
                      /\ req'[s].body.id \notin RowIds(User)
                      /\ User' = User \cup {[id |-> req'[s].body.id,
                                             username |-> req[s].username,
                                             email |-> req[s].email]}
                      /\ req'[s].body.username = req[s].username
                      /\ req'[s].body.email = req[s].email

C5_RegisterCreatedOrTaken == [][C5_Step]_vars

\* A user was registered and a later request was refused.
C5_Witness ==
    /\ req[1].op = "POST register" /\ req[1].status = 409
    /\ \E r \in User : r.id > NumUsers /\ r.username = <<"sam">>

(***************************************************************************)
(* C6: in every reachable state, with register requests interleaved, no    *)
(* two User rows have the same username and no two have the same email.    *)
(***************************************************************************)
C6_UsernameAndEmailUnique ==
    \A r1, r2 \in User :
        r1 # r2 => r1.username # r2.username /\ r1.email # r2.email

(***************************************************************************)
(* C7: busting a ghost removes the fight row and increases the user's      *)
(* ghosts_busted by exactly 1 as one atomic step: from the click on, and   *)
(* after a failed bust, either the fight row is present and the counter is *)
(* the one the page showed, or the row is gone and the counter is one      *)
(* more.                                                                   *)
(***************************************************************************)
Busting == ui.pc \in {"cancel", "bust"} \/ ui.error = "Failed to bust ghost"

C7_BustAtomic ==
    Busting =>
        \A r \in Ghost_Buster :
            r.userID = ui.user =>
                IF [userID |-> ui.user, ghostID |-> ui.ghost] \in Ghost_Buster_Fights_Ghost
                THEN r.ghosts_busted = ui.ghostsBusted
                ELSE r.ghosts_busted = ui.ghostsBusted + 1

(***************************************************************************)
(* C8: every create-sighting request with a reporter id and a description  *)
(* present is answered 201 with the id generated for the new Sighting row  *)
(* and the input description, prefixed by the line                         *)
(* 'Reported time: <timeOfSighting>' when timeOfSighting is supplied.      *)
(***************************************************************************)
Answers(s) == req[s].op = "POST sightings" /\ req[s].pc # "done" /\ req'[s].pc = "done"

C8_Step ==
    \A s \in Slots :
        Answers(s) /\ ~MissingFields(s) =>
            /\ req'[s].status = 201
            /\ req'[s].body.id = req[s].sightingId
            /\ req'[s].body.id \in RowIds(Sighting') \ {1}
            /\ req'[s].body.description =
                    IF Truthy(req[s].timeOfSighting)
                    THEN <<"Reported time: ">> \o req[s].timeOfSighting \o <<"\n">>
                            \o req[s].description
                    ELSE req[s].description

C8_CreatedWithDescription == [][C8_Step]_vars

(***************************************************************************)
(* C9: with one request at a time, a successful create-sighting request    *)
(* that supplies no ghost id (absent or empty string) leaves exactly one   *)
(* Sighting_Reports_Ghost row for the new Sighting, pointing to a Ghost    *)
(* named 'Unknown'; the request inserts a Ghost only when none had the     *)
(* name, and the inserted one is named 'Unknown'.                          *)
(***************************************************************************)
LinksOf(sightingId) == {r \in Sighting_Reports_Ghost' : r.sightingID = sightingId}
Unknowns(G) == {g \in G : g.name = <<"Unknown">>}

C9_Step ==
    \A s \in Slots :
        req[s].op = "POST sightings" /\ req[s].pc # "done" /\ ~(req[s].ghostID > 0) =>
            /\ Ghost' # Ghost =>
                    /\ Unknowns(Ghost) = {}
                    /\ \E g \in Unknowns(Ghost') : Ghost' = Ghost \cup {g}
            /\ req'[s].pc = "done" /\ req'[s].status = 201 =>
                    /\ Cardinality(LinksOf(req[s].sightingId)) = 1
                    /\ \A l \in LinksOf(req[s].sightingId) :
                            l.ghostID \in RowIds(Unknowns(Ghost'))

C9_LinkedToUnknown == [][C9_Step]_vars

\* Two sightings reported without a ghost id share the one Unknown ghost.
C9_Witness ==
    /\ req[1].op = "POST sightings" /\ req[1].status = 201
    /\ \E g \in Unknowns(Ghost) :
            Cardinality({r \in Sighting_Reports_Ghost : r.ghostID = g.id}) = 2

(***************************************************************************)
(* C10: a create-sighting request in which the reporter id or the          *)
(* description is absent is answered 400 missing_fields by its first step  *)
(* and leaves every table unchanged.                                       *)
(***************************************************************************)
C10_Step ==
    \A s \in Slots :
        /\ req[s].op = "POST sightings" /\ req[s].pc = "wait" /\ req'[s] # req[s]
        /\ ~(Reporter(s) > 0) \/ ~Truthy(req[s].description)
        => /\ req'[s].pc = "done"
           /\ req'[s].status = 400
           /\ req'[s].body = Error("missing_fields")
           /\ UNCHANGED store

C10_MissingFieldsRejected == [][C10_Step]_vars

\* A request without description was refused after a sighting had been stored.
C10_Witness ==
    /\ req[1].op = "POST sightings" /\ req[1].status = 400
    /\ req[1].body = Error("missing_fields")
    /\ Cardinality(Sighting) > 1

(***************************************************************************)
(* C11: every Sighting row and every Ghost row has an integer visibility   *)
(* between 0 and 10 inclusive.                                             *)
(***************************************************************************)
C11_VisibilityInRange ==
    /\ \A r \in Sighting : r.visibility \in 0..10
    /\ \A g \in Ghost : g.visibility \in 0..10

(***************************************************************************)
(* C12: every Tour row has startTime strictly before endTime; a            *)
(* create-tour request with startTime not before endTime inserts no row.   *)
(***************************************************************************)
C12_StartBeforeEnd == \A r \in Tour : r.startTime < r.endTime

(***************************************************************************)
(* C13: once a POST /api/tours request has been answered (201, 400 or      *)
(* 500), every Tour row has a Tour_Includes row.                           *)
(***************************************************************************)
C13_NoTourWithoutGhost ==
    Free(1) => \A r \in Tour : \E i \in Tour_Includes : i.tourID = r.id

(***************************************************************************)
(* C14: PUT ghost-buster for a user with isGhostBuster true leaves exactly *)
(* one Ghost_Buster row of the user (ghosts_busted 0 and no alias when     *)
(* none existed, the same row when one existed); with isGhostBuster false  *)
(* it leaves none, and a GET of the status of a user without a row         *)
(* answers 404 not_a_ghost_buster.                                         *)
(***************************************************************************)
BusterRows(T, u) == {r \in T : r.userID = u}

C14_Step ==
    /\ \A u \in UserIds :
            /\ req[1].op = "PUT ghost-buster" /\ req[1].pc # "done"
            /\ req'[1].pc = "done" /\ req[1].userId = u
            => CASE req[1].isGhostBuster = "true" ->
                        /\ Cardinality(BusterRows(Ghost_Buster', u)) = 1
                        /\ BusterRows(Ghost_Buster, u) = {}
                           => BusterRows(Ghost_Buster', u) =
                                {[userID |-> u, ghosts_busted |-> 0, alias |-> NullText]}
                        /\ BusterRows(Ghost_Buster, u) # {}
                           => BusterRows(Ghost_Buster', u) = BusterRows(Ghost_Buster, u)
                 [] req[1].isGhostBuster = "false" ->
                        BusterRows(Ghost_Buster', u) = {}
                 [] OTHER -> TRUE
    /\ /\ req'[1].op = "GET ghost-buster" /\ req'[1] # req[1]
       /\ BusterRows(Ghost_Buster, req'[1].userId) = {}
       => req'[1].status = 404 /\ req'[1].body = Error("not_a_ghost_buster")

C14_GhostBusterToggle == [][C14_Step]_vars

(***************************************************************************)
(* C17: the answer of GET /api/sightings is the list of the Sighting rows, *)
(* each exactly once whatever the number of its Sighting_Reports_Ghost     *)
(* rows, in descending order of time.                                      *)
(***************************************************************************)
C17_EverySightingOnceNewestFirst ==
    req[1].op = "GET sightings" =>
        /\ req[1].status = 200
        /\ LET list == req[1].body.list
           IN  /\ Len(list) = Cardinality(Sighting)
               /\ {list[i].id : i \in DOMAIN list} = RowIds(Sighting)
               /\ \A i, j \in DOMAIN list : i < j => list[i].time >= list[j].time

(***************************************************************************)
(* C18: a comment list holds exactly the comment rows of its target, in    *)
(* ascending order of reportTime; a re-post leaves the user's single row   *)
(* with the time of the re-post, so its list entry carries that time and   *)
(* is ordered by it.                                                       *)
(***************************************************************************)
Entries(list, target) ==
    {[userID |-> list[i].userID, reportTime |-> list[i].reportTime,
      description |-> list[i].description, target |-> target] : i \in DOMAIN list}

Ascending(list) ==
    \A i, j \in DOMAIN list : i < j => list[i].reportTime <= list[j].reportTime

C18_Step ==
    /\ req'[2].op = "GET sighting comments" /\ req'[2] # req[2] =>
            LET rows == {r \in Sighting_Comment : r.sightingID = req'[2].sightingId}
                list == req'[2].body.list
            IN  /\ req'[2].status = 200
                /\ Len(list) = Cardinality(rows)
                /\ Entries(list, req'[2].sightingId) =
                        {[userID |-> r.userID, reportTime |-> r.reportTime,
                          description |-> r.description, target |-> r.sightingID] :
                            r \in rows}
                /\ Ascending(list)
    /\ req'[2].op = "GET ghost comments" /\ req'[2] # req[2] =>
            LET rows == {r \in Ghost_Comment : r.ghostID = req'[2].ghostId}
                list == req'[2].body.list
            IN  /\ req'[2].status = 200
                /\ Len(list) = Cardinality(rows)
                /\ Entries(list, req'[2].ghostId) =
                        {[userID |-> r.userID, reportTime |-> r.reportTime,
                          description |-> r.description, target |-> r.ghostID] :
                            r \in rows}
                /\ Ascending(list)
    /\ \A u \in UserIds :
            /\ SightingCommentWrites(1, u, 1) /\ req'[1].status = 200 =>
                    \A r \in SightingCommentsOf(Sighting_Comment', u, 1) :
                        r.reportTime = now
            /\ GhostCommentWrites(1, u, 1) /\ req'[1].status = 200 =>
                    \A r \in GhostCommentsOf(Ghost_Comment', u, 1) :
                        r.reportTime = now

C18_CommentsOfTargetOldestFirst == [][C18_Step]_vars

\* User 1 has re-posted on sighting 1 after user 2's comment (200 Comment
\* updated) and the list of sighting 1 has user 2's entry before user 1's,
\* which carries the time of the re-post.
C18_Witness ==
    /\ req[1].op = "POST sighting comment" /\ req[1].pc = "done"
    /\ req[1].status = 200 /\ req[1].body.userID = 1
    /\ req[2].op = "GET sighting comments" /\ req[2].sightingId = 1
    /\ Len(req[2].body.list) = 2
    /\ req[2].body.list[1].userID = 2 /\ req[2].body.list[1].reportTime = 0
    /\ req[2].body.list[2].userID = 1 /\ req[2].body.list[2].reportTime = 1
    /\ now = 1

(***************************************************************************)
(* C19: every statement of the ghost-deletion sequence for a ghost g       *)
(* removes only rows that reference g and leaves Sighting, Tour, User and  *)
(* Ghost_Buster unchanged; when the last statement has run, no row of      *)
(* Ghost, Ghost_Comment, Sighting_Reports_Ghost, Tour_Includes or          *)
(* Ghost_Buster_Fights_Ghost references g.                                 *)
(***************************************************************************)
ReferencingGhost(db, g) ==
    [n \in AllTables |->
        CASE n = "Ghost" -> {r \in db.Ghost : r.id = g}
          [] n \in {"Ghost_Comment", "Sighting_Reports_Ghost", "Tour_Includes",
                    "Ghost_Buster_Fights_Ghost"} -> {r \in db[n] : r.ghostID = g}
          [] OTHER -> {}]

C19_Step ==
    del.pc = "ghost" =>
        /\ \A n \in AllTables :
            /\ DbNext[n] \subseteq Db[n]
            /\ Db[n] \ DbNext[n] \subseteq ReferencingGhost(Db, del.id)[n]
        /\ \A n \in {"Sighting", "Tour", "User", "Ghost_Buster"} : DbNext[n] = Db[n]
        /\ del'.pc = "done" =>
                \A n \in AllTables : ReferencingGhost(DbNext, del.id)[n] = {}

C19_GhostDeletionLeavesNoReference == [][C19_Step]_vars

\* The sequence has run to its end for ghost 1 with no statement rejected;
\* the tour that included the ghost, a sighting and a ghost buster remain.
C19_Witness ==
    /\ del.pc = "done" /\ del.id = 1 /\ del.rejected = {}
    /\ Ghost = {} /\ Tour_Includes = {}
    /\ Tour # {} /\ Sighting # {} /\ Ghost_Buster # {}

(***************************************************************************)
(* C20: a start runs the seed statements if and only if the User table     *)
(* holds no row when the bootstrap counts it; a start that finds a User    *)
(* row changes no row of any table.                                        *)
(***************************************************************************)
C20_Step ==
    /\ boot.pc = "create" /\ boot'.pc \in {"seed", "done"} =>
            (boot'.pc = "seed" <=> User = {})
    /\ boot.pc = "seed" => boot.userCount = 0
    /\ boot.pc \in {"start", "create"} /\ User # {} => UNCHANGED tables

C20_SeedIffNoUser == [][C20_Step]_vars

(***************************************************************************)
(* C21: a seed statement that fails is skipped alone: it changes nothing   *)
(* in the store, the loop goes on to the next seed statement in file       *)
(* order, the last seed statement (failed or not) sets dbClient, and a     *)
(* bootstrap that has begun seeding ends with dbClient set.                *)
(***************************************************************************)
C21_Step ==
    boot.pc = "seed" /\ boot' # boot /\ boot'.run = boot.run =>
        LET k == Min(NextSeed(boot.stmt))
        IN  /\ ~Execute(k).ok => UNCHANGED store
            /\ boot'.stmt = k + 1
            /\ IF NextSeed(k + 1) # {}
               THEN boot'.pc = "seed" /\ dbClient' = "null"
               ELSE boot'.pc = "done" /\ dbClient' = EngineType

C21_FailedSeedStatementIsSkippedAlone ==
    /\ [][C21_Step]_vars
    /\ (boot.pc = "seed") ~> Ready

\* MySQL, first start: the INSERT INTO User under the section header was
\* rejected, the later INSERT INTO Ghost was executed, the client is set.
C21_Witness ==
    /\ dbClient = "mysql" /\ boot.pc = "done" /\ boot.run = 1
    /\ boot.userCount = 0 /\ User = {} /\ Ghost # {}

(***************************************************************************)
(* C22: a create-sighting request whose link insert is rejected answers    *)
(* 500 internal, its Sighting row stays and no Sighting_Reports_Ghost row  *)
(* names it; GET /api/sightings on a store where sightings can be created  *)
(* answers 200 and lists every Sighting without a link row once, with      *)
(* ghostName 'Unknown'.                                                    *)
(***************************************************************************)
Linked(T, sid) == {r \in T : r.sightingID = sid}

C22_Step ==
    /\ req[1].op = "POST sightings" /\ req[1].pc = "link" =>
            /\ \E r \in Sighting : r.id = req[1].sightingId
            /\ Linked(Sighting_Reports_Ghost, req[1].sightingId) = {}
    /\ req[1].op = "POST sightings" /\ req[1].pc = "link" /\ req'[1].pc = "done" =>
            /\ req'[1].status = 500 /\ req'[1].body = Error("internal")
            /\ Sighting' = Sighting
            /\ \E r \in Sighting' : r.id = req[1].sightingId
            /\ Linked(Sighting_Reports_Ghost', req[1].sightingId) = {}
    /\ req[1].pc # "done" /\ req'[1].op = "GET sightings"
            /\ DescriptionColumn \in schema =>
            /\ req'[1].status = 200
            /\ \A r \in Sighting :
                    Linked(Sighting_Reports_Ghost, r.id) = {} =>
                        /\ Cardinality({i \in DOMAIN req'[1].body.list :
                                            req'[1].body.list[i].id = r.id}) = 1
                        /\ \A i \in DOMAIN req'[1].body.list :
                                req'[1].body.list[i].id = r.id =>
                                    req'[1].body.list[i].ghostName = <<"Unknown">>

InitGhostsBusted ==
    /\ ServingRowsOf({[userID |-> 1, ghosts_busted |-> 47, alias |-> <<"a0">>]})
    /\ schema \in {AllTables, AllTables \cup {DescriptionColumn}}

NextGhostsBusted ==
    \/ \E userId \in 1..2, b \in Booleans : PutGhostBuster(1, userId, b)
    \/ GhostBusterToggle(1)
    \/ GhostBusterInsert(1)
    \/ \E b \in Booleans : PutFights(1, 1, 1, b)
    \/ FightsToggle(1)
    \/ FightsInsert(1)
    \/ \E userId \in 1..2, alias \in Aliases : PutAlias(1, userId, alias)
    \/ AliasSelect(1)
    \/ AliasUpdate(1)
    \/ AliasInsert(1)
    \/ PostSighting(1, 1, NoId, <<"d1">>, NoId, Undefined, Undefined)
    \/ SightingInsert(1)
    \/ SightingFindUnknown(1)
    \/ SightingCreateUnknown(1)
    \/ SightingLink(1)
    \/ SightingRead(1)
    \/ PostSightingComment(1, 1, 1, <<"d1">>)
    \/ SightingCommentSelect(1)
    \/ SightingCommentWrite(1)
    \/ PostGhostComment(1, 1, 1, <<"d1">>)
    \/ GhostCommentSelect(1)
    \/ GhostCommentWrite(1)
    \/ PostJoinTour(1, 1, 1)
    \/ JoinSelect(1)
    \/ JoinInsert(1)
    \/ DeleteLeaveTour(1, 1, 1)
    \/ LeaveDelete(1)
    \/ PostTour(1, <<"g">>, <<"p">>, 1, 2, [isArray |-> TRUE, items |-> <<1>>])
    \/ TourInsert(1)
    \/ TourInclude(1)

SpecGhostsBusted == InitGhostsBusted /\ [][NextGhostsBusted]_vars

(***************************************************************************)
(* C23: no step of any handler changes the ghosts_busted of a Ghost_Buster *)
(* row; the steps of fights, sightings, comments and tours leave every     *)
(* (user, count) pair as it is, and setting the alias at most adds a row   *)
(* with count 0 for a user who had none.                                   *)
(***************************************************************************)
Counts(T) == {<<r.userID, r.ghosts_busted>> : r \in T}

C23_Step ==
    /\ \A r \in Ghost_Buster, q \in Ghost_Buster' :
            q.userID = r.userID => q.ghosts_busted = r.ghosts_busted
    /\ req[1].op \notin {"PUT ghost-buster", "PUT alias"} =>
            Counts(Ghost_Buster') = Counts(Ghost_Buster)
    /\ req[1].op = "PUT alias" =>
            /\ Counts(Ghost_Buster) \subseteq Counts(Ghost_Buster')
            /\ \A c \in Counts(Ghost_Buster') \ Counts(Ghost_Buster) :
                    c = <<req[1].userId, 0>>

C24_BranchesAnswerAlike ==
    \A s \in Slots :
        req[s].op = "POST sightings" /\ req[s].pc = "read" =>
            \A r \in Sighting :
                r.id = req[s].sightingId =>
                    SightingCreated(s, r, TRUE) = SightingCreated(s, r, FALSE)

(***************************************************************************)
(* Two comment posts in flight: user 1 posts on sighting 1 and on ghost 1  *)
(* from two connections, each with its own description; the awaits of the *)
(* two handlers interleave.                                                *)
(***************************************************************************)
DescriptionOf(s) == IF s = 1 THEN <<"d1">> ELSE <<"d2">>

NextCommentConcurrent ==
    \/ \E s \in Slots : PostSightingComment(s, 1, 1, DescriptionOf(s))
    \/ \E s \in Slots : SightingCommentSelect(s)
    \/ \E s \in Slots : SightingCommentWrite(s)
    \/ \E s \in Slots : PostGhostComment(s, 1, 1, DescriptionOf(s))
    \/ \E s \in Slots : GhostCommentSelect(s)
    \/ \E s \in Slots : GhostCommentWrite(s)

SpecCommentConcurrent == InitServing /\ [][NextCommentConcurrent]_vars

(***************************************************************************)
(* C25: whatever the interleaving of two comment posts of one user on one  *)
(* target, no post is answered with an error, and once a post is answered  *)
(* the store holds exactly one row for the pair, with the description of   *)
(* one of the posts.                                                       *)
(***************************************************************************)
C25_ConcurrentPostsLeaveOneRow ==
    \A s \in Slots :
        req[s].pc = "done" =>
            /\ req[s].status \in {200, 201}
            /\ req[s].op = "POST sighting comment" =>
                    /\ Cardinality(SightingCommentsOf(Sighting_Comment, 1, 1)) = 1
                    /\ \A r \in SightingCommentsOf(Sighting_Comment, 1, 1) :
                            r.description \in {DescriptionOf(t) : t \in Slots}
            /\ req[s].op = "POST ghost comment" =>
                    /\ Cardinality(GhostCommentsOf(Ghost_Comment, 1, 1)) = 1
                    /\ \A r \in GhostCommentsOf(Ghost_Comment, 1, 1) :
                            r.description \in {DescriptionOf(t) : t \in Slots}

(***************************************************************************)
(* Two join requests in flight for tour 1, from two connections.           *)
(***************************************************************************)
NextJoinConcurrent ==
    \/ \E s \in Slots, userID \in UserIds : PostJoinTour(s, 1, userID)
    \/ \E s \in Slots : JoinSelect(s)
    \/ \E s \in Slots : JoinInsert(s)

SpecJoinConcurrent == InitServing /\ [][NextJoinConcurrent]_vars

(***************************************************************************)
(* C26: whatever the interleaving of two join requests for one (user,      *)
(* tour) pair, each request is answered 201 or 200, and a request answered *)
(* 201 leaves the membership row of its pair in the store.                 *)
(***************************************************************************)
C26_ConcurrentJoinsSucceed ==
    \A s \in Slots :
        req[s].op = "POST join" /\ req[s].pc = "done" =>
            /\ req[s].status \in {200, 201}
            /\ req[s].status = 201 => req[s].body \in Tour_Sign_Up

(***************************************************************************)
(* C27: in every reachable state at most one Ghost row is named 'Unknown'. *)
(***************************************************************************)
C27_AtMostOneUnknown == Cardinality(Unknowns(Ghost)) <= 1

(***************************************************************************)
(* The ghost-buster role, the alias and the fights of existing users, one  *)
(* request at a time.                                                      *)
(***************************************************************************)
NextFightRows ==
    \/ \E userId \in UserIds, b \in Booleans : PutGhostBuster(1, userId, b)
    \/ GhostBusterToggle(1)
    \/ GhostBusterInsert(1)
    \/ \E userId \in UserIds, ghostId \in 1..NumGhosts + 1, b \in Booleans :
            PutFights(1, userId, ghostId, b)
    \/ FightsToggle(1)
    \/ FightsInsert(1)
    \/ \E userId \in UserIds : PutAlias(1, userId, <<"a1">>)
    \/ AliasSelect(1)
    \/ AliasUpdate(1)
    \/ AliasInsert(1)

SpecFightRows == InitServing /\ [][NextFightRows]_vars

(***************************************************************************)
(* C28: every Ghost_Buster_Fights_Ghost row has the Ghost_Buster row of    *)
(* its user and the Ghost row of its ghost, before and after every step; a *)
(* fights request of a user without Ghost_Buster row adds no fight row;    *)
(* a ghost-buster request of a user with fight rows keeps the user's       *)
(* Ghost_Buster row.                                                       *)
(***************************************************************************)
FightsOf(T, u) == {f \in T : f.userID = u}

FightRowsReferToRows(fights, busters, ghosts) ==
    \A f \in fights :
        /\ \E b \in busters : b.userID = f.userID
        /\ \E g \in ghosts : g.id = f.ghostID

C28_Step ==
    /\ FightRowsReferToRows(Ghost_Buster_Fights_Ghost, Ghost_Buster, Ghost)
    /\ FightRowsReferToRows(Ghost_Buster_Fights_Ghost', Ghost_Buster', Ghost')
    /\ req[1].op = "PUT fights" /\ req[1].pc # "done"
            /\ (\A b \in Ghost_Buster : b.userID # req[1].userId) =>
            /\ UNCHANGED Ghost_Buster_Fights_Ghost
            /\ req'[1].pc = "done" /\ req[1].fighting = "true" => req'[1].status = 500
    /\ req[1].op = "PUT ghost-buster" /\ req[1].pc # "done"
            /\ FightsOf(Ghost_Buster_Fights_Ghost, req[1].userId) # {} =>
            /\ UNCHANGED <<Ghost_Buster, Ghost_Buster_Fights_Ghost>>
            /\ req'[1].pc = "done" /\ req[1].isGhostBuster = "false" =>
                    req'[1].status = 500

C28_FightRowsKeepTheirRows == [][C28_Step]_vars

\* A request to end the role of a user who fights a ghost was refused: the
\* fight row and the Ghost_Buster row are both there.
C28_Witness ==
    /\ req[1].op = "PUT ghost-buster" /\ req[1].pc = "done" /\ req[1].status = 500
    /\ Ghost_Buster_Fights_Ghost # {}
    /\ FightRowsReferToRows(Ghost_Buster_Fights_Ghost, Ghost_Buster, Ghost)

(***************************************************************************)
(* Requests that arrive while the server starts: create-sighting requests  *)
(* (with and without description) and sighting lists on two connections,   *)
(* beside the bootstrap of a first start.  On the store a bootstrap        *)
(* leaves, the Sighting INSERT is always rejected, so the later steps of   *)
(* the create-sighting handler do not occur.  The event loop runs every    *)
(* handler on: the 50 ms poll fires and every awaited statement settles.   *)
(***************************************************************************)
NextBootRequests ==
    \/ BootOpen
    \/ BootCreateTable
    \/ BootCount
    \/ BootSeed
    \/ \E s \in Slots, d \in {Undefined, <<"d1">>} :
            PostSighting(s, 1, NoId, d, NoId, Undefined, Undefined)
    \/ \E s \in Slots : SightingInsert(s)
    \/ \E s \in Slots : GetSightings(s)

\* WF_vars(Bootstrap) written without ENABLED: a bootstrap step is possible
\* exactly while boot.pc # "done".
BootstrapRunsOn == []<>(boot.pc = "done") \/ []<><<Bootstrap>>_vars

SpecBootRequests ==
    /\ InitBoot /\ [][NextBootRequests]_vars
    /\ BootstrapRunsOn
    /\ \A s \in Slots : WF_vars(SightingInsert(s))

(***************************************************************************)
(* C29 as stated: while dbClient is not set no handler step touches the    *)
(* store and no request is answered; a waiting request is answered, once,  *)
(* after the bootstrap has ended.                                          *)
(***************************************************************************)
OneResponse(s) ==
    /\ req[s].pc = "wait" /\ req'[s] # req[s] => req'[s].pc = "done"
    /\ req[s].pc = "done" /\ req'[s] # req[s] =>
            req'[s].pc = "wait" \/ req'[s].op = "GET sightings"

C29_OriginalStep ==
    \A s \in Slots :
        /\ dbClient = "null" /\ req'[s] # req[s] =>
                UNCHANGED store /\ req'[s].pc # "done"
        /\ OneResponse(s)

C29_ArrivalsDuringBootstrapWait ==
    /\ [][C29_OriginalStep]_vars
    /\ \A s \in Slots : (req[s].pc = "wait") ~> (req[s].pc = "done")

(***************************************************************************)
(* C29, amended: while dbClient is not set no handler step touches the     *)
(* store, and the only request answered is a create-sighting request with  *)
(* a missing field, answered 400; a waiting request is answered, once.     *)
(***************************************************************************)
C29_Step ==
    \A s \in Slots :
        /\ dbClient = "null" /\ req'[s] # req[s] =>
                /\ UNCHANGED store
                /\ req'[s].pc = "done" =>
                        /\ req'[s].status = 400
                        /\ req[s].pc = "wait" /\ MissingFields(s)
        /\ OneResponse(s)

C29_ArrivalsWaitUnlessRejectedAtOnce ==
    /\ [][C29_Step]_vars
    /\ \A s \in Slots : (req[s].pc = "wait") ~> (req[s].pc = "done")

\* A complete create-sighting request waits in slot 1 and a request without
\* description has been answered in slot 2, while the seed statements run.
C29_Witness ==
    /\ boot.pc = "seed" /\ dbClient = "null"
    /\ req[1].op = "POST sightings" /\ req[1].pc = "wait" /\ ~MissingFields(1)
    /\ req[2].op = "POST sightings" /\ req[2].pc = "done" /\ req[2].status = 400

(***************************************************************************)
(* C30: from a store that satisfies the foreign keys, every statement of   *)
(* the user-deletion sequence, run in file order with no other writer,     *)
(* leaves a store that satisfies the foreign keys, so none is rejected.    *)
(***************************************************************************)
C30_Step ==
    del.pc = "user" =>
        /\ ForeignKeysHold(Db)
        /\ ForeignKeysHold(UserDeleteStatement(del.stmt, Db, del.id))
        /\ del.rejected = {} /\ del'.rejected = {}

C30_NoUserDeleteStatementRejected == [][C30_Step]_vars

\* Eight statements have run for user 1 and none was rejected: no sighting
\* and no Ghost_Buster row of user 1 is left, rows of another user remain,
\* and the DELETE FROM User is next.
C30_Witness ==
    /\ del.pc = "user" /\ del.stmt = NumUserDeleteStatements /\ del.id = 1
    /\ del.rejected = {}
    /\ 1 \in RowIds(User)
    /\ \A r \in Sighting : r.userReportID # 1
    /\ 1 \notin RowIds(Sighting)
    /\ \A b \in Ghost_Buster : b.userID # 1
    /\ Ghost_Buster # {} /\ Sighting # {}

====
